---------------------------- MODULE Spec2Model ----------------------------
(***************************************************************************)
(* The session context engine of ai-rpg-mvp/context: the ContextManager    *)
(* (cache, event queue, worker, periodic saver, Shutdown) over a           *)
(* ContextStorage.                                                         *)
(*                                                                         *)
(* Goroutines are modelled as threads that take one step per shared memory *)
(* access: the cache holds pointers, GetContext hands the pointer out, and *)
(* the mutators change the PlayerContext behind it without a lock, so a    *)
(* statement such as  ctx.Character.Reputation += n  is a read step and a  *)
(* write step.  PlayerContext values live in `heap`, the cache maps a      *)
(* session id to a heap index, and the storage keeps the shallow copy that *)
(* MemoryContextStorage makes (the NPCStates map stays shared).            *)
(*                                                                         *)
(* The KnownFacts slices of the NPC relationships are slice headers over   *)
(* backing arrays in `arrays`: a copy of a relationship shares the array   *)
(* of the original, and append writes into spare capacity in place.        *)
(*                                                                         *)
(* Not modelled: wall-clock time (timestamps, durations; a location visit  *)
(* records only whether it has an exit time, and the passing of time is    *)
(* the ticks of the saver's ticker), the Go slice backing arrays of        *)
(* Actions and LocationHistory (they are values), the JSON round trip of   *)
(* the PostgreSQL storage (storage errors are modelled, its copies are the *)
(* in-memory ones).                                                        *)
(*                                                                         *)
(* The AI service of ai-rpg-mvp/ai (rate limiter, retry loop, response     *)
(* cache) is a separate object, kept in `aiService`; its clock is a count  *)
(* of ticks, and the engine's specifications leave it unchanged.           *)
(***************************************************************************)
EXTENDS Integers, Sequences, FiniteSets, TLC

(***************************************************************************)
(* Bounds of the model.  eventQueueCap and maxActions are the two sizes    *)
(* NewContextManager configures (1000 and 50); the model runs the same     *)
(* code with small sizes so that a full queue and a trimmed log are        *)
(* reached.                                                                *)
(***************************************************************************)
eventQueueCap == 2
maxActions == 2
NumHandlers == 2
MaxCalls == 3
MaxTicks == 1
MaxFaults == 1

(* Program constants. *)
RepMax == 100
RepMin == -100
NewHealth == 20
DefaultRepIncrease == 5
DefaultRepDecrease == -10
CombatVictoryRep == 2
CombatDefeatRep == -1

(* The session ids callers use, and the NPC ids. *)
Sessions == {"s1", "s2"}
NPCs == {"npc1"}

(* The keys cm.cache is asked for: the session ids, and the empty string a
   caller may pass as one. *)
Keys == Sessions \cup {""}

(* Threads that run GetContext: the worker goroutine, the request handlers
   and the goroutine that built the manager (a test's main goroutine). *)
Worker == 0
Handlers == 1..NumHandlers
Main == NumHandlers + 1
Callers == Handlers \cup {Main}
Threads == {Worker} \cup Callers

NoCtx == 0

VARIABLES
    heap,        \* the PlayerContext objects ever allocated, by pointer
    npcMaps,     \* the NPCStates maps, by the heap index of the object they were made for
    cache,       \* cm.cache: session id -> pointer (NoCtx: absent)
    store,       \* the storage's contexts map: session id -> stored copy
    eventQueue,  \* cm.eventQueue
    shutdownCh,  \* TRUE once close(cm.shutdownCh) ran
    th,          \* per thread: pc, the call in progress, its ctx pointer, a loaded value
    workerMode,  \* processEvents: "run" (outer select), "drain" (shutdown branch), "done"
    saver,       \* the persistentSaver goroutine
    sd,          \* the caller of Shutdown (acc, app: how many events had been
                 \* accepted and applied when it closed shutdownCh; racc: how
                 \* many had been accepted when it returned)
    calls,       \* API calls begun
    faults,      \* storage errors still to be injected
    accepted,    \* history: the events RecordAction accepted, in order
    rejected,    \* history: ids of the events RecordAction refused
    applied,     \* history: the events the worker appended to a log, in order
    lastGet,     \* history: what the last completed GetContext observed and returned
    arrays,      \* the backing arrays of the KnownFacts slices, by pointer
    aiService    \* the AIService: its rate limiter, its response cache, the clock
                 \* and the call of GenerateGMResponse in progress

vars == <<heap, npcMaps, cache, store, eventQueue, shutdownCh, th, workerMode, saver, sd,
          calls, faults, accepted, rejected, applied, lastGet, arrays, aiService>>

----------------------------------------------------------------------------
(* Data *)

EmptyMetadata == <<>>

\* types.go: PlayerContext as createNewContext builds it.
createNewContext(sessionID, npcRef) ==
    [ SessionID |-> sessionID,
      PlayerID |-> "",
      Character |-> [ Name |-> "",
                      Health |-> [Current |-> NewHealth, Max |-> NewHealth],
                      Reputation |-> 0,
                      Inventory |-> <<>> ],
      Location |-> [Current |-> "unknown", Previous |-> "", LocationHistory |-> <<>>],
      Actions |-> <<>>,
      NPCStates |-> npcRef,
      SessionStats |-> [ TotalActions |-> 0, CombatActions |-> 0,
                         SocialActions |-> 0, ExploreActions |-> 0,
                         LocationsVisited |-> 0, NPCsInteracted |-> 0 ] ]

\* Mutant of newSessionContext: the skeleton of createNewContext is used.
newSessionContextSkeleton(sessionID, playerID, playerName, npcRef) ==
    createNewContext(sessionID, npcRef)

\* The PlayerContext CreateSession builds.
newSessionContext(sessionID, playerID, playerName, npcRef) ==
    [ createNewContext(sessionID, npcRef) EXCEPT
        !.PlayerID = playerID,
        !.Character.Name = playerName,
        !.Location.Current = "starting_village",
        !.SessionStats.LocationsVisited = 1 ]

\* Mutant of calculateMood: the thresholds are exclusive.
calculateMoodExclusive(disposition) ==
    IF disposition > 50 THEN "friendly"
    ELSE IF disposition > 25 THEN "helpful"
    ELSE IF disposition > 0 THEN "neutral"
    ELSE IF disposition > -25 THEN "suspicious"
    ELSE IF disposition > -50 THEN "unfriendly"
    ELSE "hostile"

\* calculateMood: the mood label of a disposition.
calculateMood(disposition) ==
    IF disposition >= 50 THEN "friendly"
    ELSE IF disposition >= 25 THEN "helpful"
    ELSE IF disposition >= 0 THEN "neutral"
    ELSE IF disposition >= -25 THEN "suspicious"
    ELSE IF disposition >= -50 THEN "unfriendly"
    ELSE "hostile"

\* contains(slice, item)
contains(slice, item) == \E i \in 1..Len(slice) : slice[i] = item

\* Mutant of ClampRep: the lower limit is not applied.
ClampRepUpperOnly(v) == IF v > RepMax THEN RepMax ELSE v

\* The clamp of reputation and disposition to [-100, 100].
ClampRep(v) == IF v > RepMax THEN RepMax ELSE IF v < RepMin THEN RepMin ELSE v

\* The clamp of UpdateCharacterHealth to [0, max].
ClampHealth(v, max) == IF v > max THEN max ELSE IF v < 0 THEN 0 ELSE v


\* An empty NPCStates map (make(map[string]NPCRelationship)).
EmptyMap == [n \in {} |-> 0]

\* m[k] = v for a Go map held as a function.
MapPut(m, k, v) == [n \in (DOMAIN m) \cup {k} |-> IF n = k THEN v ELSE m[n]]

\* A []string: the pointer to its backing array (0: none) and its length;
\* its capacity is the length of the backing array.  []string{} has
\* neither elements nor capacity.
EmptySlice == [arr |-> 0, len |-> 0]
sliceCap(sl, arrs) == IF sl.arr = 0 THEN 0 ELSE Len(arrs[sl.arr])
sliceView(sl, arrs) == IF sl.arr = 0 THEN <<>> ELSE SubSeq(arrs[sl.arr], 1, sl.len)

\* The capacity append gives the new backing array of a full slice: one
\* element for an empty slice, twice the old capacity otherwise.
growCap(cap) == IF cap = 0 THEN 1 ELSE 2 * cap

\* append(sl, x): with spare capacity the element is written into the
\* backing array in place, whoever else points to that array; a full slice
\* is copied into a new array first.  The result is the new slice header
\* and the backing arrays.
sliceAppend(sl, arrs, x) ==
    IF sl.len < sliceCap(sl, arrs)
    THEN [sl |-> [sl EXCEPT !.len = @ + 1],
          arrs |-> [arrs EXCEPT ![sl.arr][sl.len + 1] = x]]
    ELSE LET n == growCap(sliceCap(sl, arrs))
             old == sliceView(sl, arrs)
         IN [sl |-> [arr |-> Len(arrs) + 1, len |-> sl.len + 1],
             arrs |-> Append(arrs, [k \in 1..n |->
                                      IF k <= sl.len THEN old[k]
                                      ELSE IF k = sl.len + 1 THEN x ELSE ""])]

\* The NPCRelationship UpdateNPCRelationship makes for an NPC it has not seen.
newNPCRelationship(npcID, npcName, location) ==
    [ NPCID |-> npcID, Name |-> npcName, Disposition |-> 0,
      InteractionCount |-> 0, KnownFacts |-> EmptySlice, Mood |-> "neutral",
      Location |-> location ]

\* The loop of UpdateNPCRelationship that appends the facts not yet known,
\* run without interruption: the new slice header and the backing arrays.
RECURSIVE addFacts(_, _, _)
addFacts(known, arrs, facts) ==
    IF facts = <<>> THEN [sl |-> known, arrs |-> arrs]
    ELSE IF contains(sliceView(known, arrs), Head(facts))
         THEN addFacts(known, arrs, Tail(facts))
         ELSE LET r == sliceAppend(known, arrs, Head(facts))
              IN addFacts(r.sl, r.arrs, Tail(facts))

\* Mutant of updatedNPCRelationship: the mood is that of the disposition
\* before the change.
updatedNPCRelationshipStaleMood(npcRel, dispositionChange, location) ==
    [ npcRel EXCEPT !.Disposition = ClampRep(npcRel.Disposition + dispositionChange),
                    !.InteractionCount = @ + 1,
                    !.Location = location,
                    !.Mood = calculateMood(npcRel.Disposition) ]

\* UpdateNPCRelationship's changes to the local copy npcRel other than the
\* facts: disposition with its clamp, interaction count, location, mood.
updatedNPCRelationship(npcRel, dispositionChange, location) ==
    LET d == ClampRep(npcRel.Disposition + dispositionChange) IN
    [ npcRel EXCEPT !.Disposition = d,
                    !.InteractionCount = @ + 1,
                    !.Location = location,
                    !.Mood = calculateMood(d) ]

\* The ActionEvent RecordAction builds: the metadata bag is always empty.
newActionEvent(id, sessionID, kind) ==
    [ ID |-> id, SessionID |-> sessionID, Type |-> kind.Type,
      Consequences |-> kind.Consequences, Metadata |-> EmptyMetadata ]

NoEvent == [ ID |-> 0, SessionID |-> "", Type |-> "", Consequences |-> <<>>,
             Metadata |-> EmptyMetadata ]

\* Mutant of appendTrim: the trim keeps one element too many.
appendTrimOffByOne(actions, ev) ==
    LET a == Append(actions, ev) IN
    IF Len(a) > maxActions + 1 THEN SubSeq(a, Len(a) - maxActions, Len(a)) ELSE a

\* processContextEvent lines 38-44: append, then keep the last maxActions.
appendTrim(actions, ev) ==
    LET a == Append(actions, ev) IN
    IF Len(a) > maxActions THEN SubSeq(a, Len(a) - maxActions + 1, Len(a)) ELSE a

\* removeItemFromInventory: drop the first item with the id.
RECURSIVE removeItem(_, _)
removeItem(inv, itemID) ==
    IF inv = <<>> THEN <<>>
    ELSE IF Head(inv).ID = itemID THEN Tail(inv)
    ELSE <<Head(inv)>> \o removeItem(Tail(inv), itemID)

\* Mutant of consequenceEffect: a tag outside the switch nudges reputation.
consequenceEffectDefaultNudge(tag, md) ==
    IF tag \in {"reputation_increase", "combat_victory"}
        THEN [field |-> "reputation", n |-> DefaultRepIncrease]
    ELSE IF tag \in {"reputation_decrease", "combat_defeat"}
        THEN [field |-> "reputation", n |-> DefaultRepDecrease]
    ELSE [field |-> "reputation", n |-> CombatVictoryRep]

\* processActionConsequences, one case of the switch: which field the
\* consequence changes and by how much ("none": the case does nothing).
consequenceEffect(tag, md) ==
    CASE tag = "reputation_increase" ->
           [ field |-> "reputation",
             n |-> IF "reputation_change" \in DOMAIN md
                   THEN md["reputation_change"] ELSE DefaultRepIncrease ]
      [] tag = "reputation_decrease" ->
           [ field |-> "reputation",
             n |-> IF "reputation_change" \in DOMAIN md
                   THEN md["reputation_change"] ELSE DefaultRepDecrease ]
      [] tag = "health_damage" ->
           IF "damage" \in DOMAIN md
           THEN [field |-> "damage", n |-> md["damage"]]
           ELSE [field |-> "none", n |-> 0]
      [] tag = "health_heal" ->
           IF "healing" \in DOMAIN md
           THEN [field |-> "healing", n |-> md["healing"]]
           ELSE [field |-> "none", n |-> 0]
      [] tag = "npc_noticed" ->
           IF "npc_id" \in DOMAIN md /\ "npc_name" \in DOMAIN md
           THEN [field |-> "npc", n |-> 0]
           ELSE [field |-> "none", n |-> 0]
      [] tag = "combat_victory" -> [field |-> "reputation", n |-> CombatVictoryRep]
      [] tag = "combat_defeat" -> [field |-> "reputation", n |-> CombatDefeatRep]
      [] tag = "quest_completed" ->
           IF "reputation_reward" \in DOMAIN md
           THEN [field |-> "reputation", n |-> md["reputation_reward"]]
           ELSE [field |-> "none", n |-> 0]
      [] tag = "item_gained" ->
           IF "item" \in DOMAIN md
           THEN [field |-> "item_gained", n |-> 0]
           ELSE [field |-> "none", n |-> 0]
      [] tag = "item_lost" ->
           IF "item_id" \in DOMAIN md
           THEN [field |-> "item_lost", n |-> 0]
           ELSE [field |-> "none", n |-> 0]
      [] OTHER -> [field |-> "none", n |-> 0]

\* updateSessionStats
updateSessionStats(stats, actionType) ==
    LET s == [stats EXCEPT !.TotalActions = @ + 1] IN
    IF actionType \in {"combat", "attack", "defend"}
        THEN [s EXCEPT !.CombatActions = @ + 1]
    ELSE IF actionType \in {"talk", "dialogue", "social"}
        THEN [s EXCEPT !.SocialActions = @ + 1]
    ELSE IF actionType \in {"move", "explore", "examine", "look"}
        THEN [s EXCEPT !.ExploreActions = @ + 1]
    ELSE s

----------------------------------------------------------------------------
(* Threads *)

NoOp == [name |-> "", sid |-> "", n |-> 0, npc |-> "", facts |-> <<>>, ev |-> NoEvent,
         loc |-> ""]

\* What the caller's last CreateSession returned (sid, err), the id it had
\* generated and the context it had built; for other calls, the context or
\* the list (of ids, actions or lines) they returned.
NoRet == [sid |-> "", err |-> FALSE, made |-> "", ctx |-> NoCtx, list |-> <<>>,
          mood |-> ""]

\* A goroutine that is in no call.
IdleThread(done) ==
    [pc |-> "idle", op |-> NoOp, ctx |-> NoCtx, tmp |-> 0, i |-> 0,
     how |-> "", had |-> FALSE, n |-> done, ret |-> NoRet]

\* The calls a handler can make.
OpGetContext(sid) == [NoOp EXCEPT !.name = "GetContext", !.sid = sid]
OpUpdateReputation(sid, change) ==
    [NoOp EXCEPT !.name = "UpdateReputation", !.sid = sid, !.n = change]
OpUpdateCharacterHealth(sid, change) ==
    [NoOp EXCEPT !.name = "UpdateCharacterHealth", !.sid = sid, !.n = change]
OpUpdateNPCRelationship(sid, npcID, change, facts) ==
    [NoOp EXCEPT !.name = "UpdateNPCRelationship", !.sid = sid, !.n = change,
                 !.npc = npcID, !.facts = facts]
OpUpdateLocation(sid, newLocation) ==
    [NoOp EXCEPT !.name = "UpdateLocation", !.sid = sid, !.loc = newLocation]
OpGetRecentActions(sid, count) ==
    [NoOp EXCEPT !.name = "GetRecentActions", !.sid = sid, !.n = count]
OpGetContextSummary(sid) == [NoOp EXCEPT !.name = "GetContextSummary", !.sid = sid]
OpGenerateAIPrompt(sid) == [NoOp EXCEPT !.name = "GenerateAIPrompt", !.sid = sid]
OpProcessContextEvent(ev) ==
    [NoOp EXCEPT !.name = "processContextEvent", !.sid = ev.SessionID, !.ev = ev]

\* Where a call continues once its GetContext has returned.
BodyPc(name) ==
    CASE name = "GetContext" -> "gc_return"
      [] name = "UpdateReputation" -> "rep_read"
      [] name = "UpdateCharacterHealth" -> "hp_read"
      [] name = "UpdateNPCRelationship" -> "npc_read"
      [] name = "UpdateLocation" -> "loc_read"
      [] name = "GetRecentActions" -> "ra_return"
      [] name = "GetContextSummary" -> "cs_return"
      [] name = "GenerateAIPrompt" -> "ap_summary"
      [] name = "processContextEvent" -> "ev_append"

\* GetContext lines 63-66: the cache lookup that starts every call.
\* A hit returns the cached pointer, a miss goes on to the storage.
cacheLoad(t, o) ==
    IF cache[o.sid] # NoCtx
    THEN [th[t] EXCEPT !.pc = BodyPc(o.name), !.op = o, !.ctx = cache[o.sid],
                       !.how = "cached", !.had = o.sid \in DOMAIN store]
    ELSE [th[t] EXCEPT !.pc = "gc_load", !.op = o, !.ctx = NoCtx]

\* A handler starts GetContext, UpdateReputation, UpdateCharacterHealth or
\* UpdateNPCRelationship: each begins with cm.GetContext(sessionID).
Call(t, o) ==
    /\ t \in Callers
    /\ th[t].pc = "idle"
    /\ calls' = calls + 1
    /\ th' = [th EXCEPT ![t] = cacheLoad(t, o)]
    /\ UNCHANGED <<aiService, heap, npcMaps, cache, store, eventQueue, shutdownCh, workerMode,
                   saver, sd, faults, accepted, rejected, applied, lastGet, arrays>>

\* GetContext lines 68-73: storage.LoadContext; any error makes a new context.
\* A successful load is the storage's copy (*ctx): the NPCStates map is shared.
\* ok = FALSE is a load that fails although the storage holds the session.
GetContextLoad(t) ==
    /\ th[t].pc = "gc_load"
    /\ \E ok \in BOOLEAN :
         LET sid == th[t].op.sid
             p == Len(heap) + 1
             found == sid \in DOMAIN store /\ ok
         IN /\ (~ok) => (sid \in DOMAIN store /\ faults > 0)
            /\ faults' = IF ok THEN faults ELSE faults - 1
            /\ heap' = Append(heap, IF found THEN store[sid]
                                    ELSE createNewContext(sid, p))
            /\ npcMaps' = Append(npcMaps, EmptyMap)
            /\ th' = [th EXCEPT ![t].pc = "gc_store", ![t].ctx = p,
                                ![t].how = IF found THEN "loaded" ELSE "created",
                                ![t].had = sid \in DOMAIN store]
    /\ UNCHANGED <<aiService, cache, store, eventQueue, shutdownCh, workerMode, saver, sd,
                   calls, accepted, rejected, applied, lastGet, arrays>>

\* GetContext lines 75-77: cm.cache.Store(sessionID, ctx); return ctx.
GetContextStore(t) ==
    /\ th[t].pc = "gc_store"
    /\ cache' = [cache EXCEPT ![th[t].op.sid] = th[t].ctx]
    /\ th' = [th EXCEPT ![t].pc = BodyPc(th[t].op.name)]
    /\ UNCHANGED <<aiService, heap, npcMaps, store, eventQueue, shutdownCh, workerMode, saver, sd,
                   calls, faults, accepted, rejected, applied, lastGet, arrays>>

\* A handler's GetContext returns (always with a nil error).
GetContextReturn(t) ==
    /\ th[t].pc = "gc_return"
    /\ lastGet' = [sid |-> th[t].op.sid, ctx |-> th[t].ctx, how |-> th[t].how,
                   had |-> th[t].had, prev |-> lastGet.ret[th[t].op.sid],
                   ret |-> [lastGet.ret EXCEPT ![th[t].op.sid] = th[t].ctx]]
    /\ th' = [th EXCEPT ![t] = IdleThread(th[t].n + 1)]
    /\ UNCHANGED <<aiService, heap, npcMaps, cache, store, eventQueue, shutdownCh, workerMode,
                   saver, sd, calls, faults, accepted, rejected, applied, arrays>>

\* The last statements of every mutator and of processContextEvent:
\* ctx.LastUpdate = time.Now(); cm.cache.Store(sessionID, ctx).
CacheStore(t) ==
    /\ th[t].pc = "put"
    /\ cache' = [cache EXCEPT ![th[t].op.sid] = th[t].ctx]
    /\ th' = [th EXCEPT ![t] = IdleThread(th[t].n + 1)]
    /\ UNCHANGED <<aiService, heap, npcMaps, store, eventQueue, shutdownCh, workerMode, saver, sd,
                   calls, faults, accepted, rejected, applied, lastGet, arrays>>

\* UpdateReputation line 289, the read of ctx.Character.Reputation += change.
UpdateReputationRead(t) ==
    /\ th[t].pc = "rep_read"
    /\ th' = [th EXCEPT ![t].pc = "rep_write",
                        ![t].tmp = heap[th[t].ctx].Character.Reputation]
    /\ UNCHANGED <<aiService, heap, npcMaps, cache, store, eventQueue, shutdownCh, workerMode,
                   saver, sd, calls, faults, accepted, rejected, applied, lastGet, arrays>>

\* UpdateReputation line 289, the write.
UpdateReputationWrite(t) ==
    /\ th[t].pc = "rep_write"
    /\ heap' = [heap EXCEPT ![th[t].ctx].Character.Reputation = th[t].tmp + th[t].op.n]
    /\ th' = [th EXCEPT ![t].pc = "rep_clamp"]
    /\ UNCHANGED <<aiService, npcMaps, cache, store, eventQueue, shutdownCh, workerMode, saver, sd,
                   calls, faults, accepted, rejected, applied, lastGet, arrays>>

\* UpdateReputation lines 291-296: the clamp.
UpdateReputationClamp(t) ==
    /\ th[t].pc = "rep_clamp"
    /\ heap' = [heap EXCEPT ![th[t].ctx].Character.Reputation = ClampRep(@)]
    /\ th' = [th EXCEPT ![t].pc = "put"]
    /\ UNCHANGED <<aiService, npcMaps, cache, store, eventQueue, shutdownCh, workerMode, saver, sd,
                   calls, faults, accepted, rejected, applied, lastGet, arrays>>

\* UpdateCharacterHealth line 267, the read of Health.Current += change.
UpdateCharacterHealthRead(t) ==
    /\ th[t].pc = "hp_read"
    /\ th' = [th EXCEPT ![t].pc = "hp_write",
                        ![t].tmp = heap[th[t].ctx].Character.Health.Current]
    /\ UNCHANGED <<aiService, heap, npcMaps, cache, store, eventQueue, shutdownCh, workerMode,
                   saver, sd, calls, faults, accepted, rejected, applied, lastGet, arrays>>

\* UpdateCharacterHealth line 267, the write.
UpdateCharacterHealthWrite(t) ==
    /\ th[t].pc = "hp_write"
    /\ heap' = [heap EXCEPT ![th[t].ctx].Character.Health.Current =
                                th[t].tmp + th[t].op.n]
    /\ th' = [th EXCEPT ![t].pc = "hp_clamp"]
    /\ UNCHANGED <<aiService, npcMaps, cache, store, eventQueue, shutdownCh, workerMode, saver, sd,
                   calls, faults, accepted, rejected, applied, lastGet, arrays>>

\* UpdateCharacterHealth lines 269-274: the clamp.
UpdateCharacterHealthClamp(t) ==
    /\ th[t].pc = "hp_clamp"
    /\ heap' = [heap EXCEPT ![th[t].ctx].Character.Health.Current =
                                ClampHealth(@, heap[th[t].ctx].Character.Health.Max)]
    /\ th' = [th EXCEPT ![t].pc = "put"]
    /\ UNCHANGED <<aiService, npcMaps, cache, store, eventQueue, shutdownCh, workerMode, saver, sd,
                   calls, faults, accepted, rejected, applied, lastGet, arrays>>

\* A LocationVisit: ExitTime.IsZero() is Open.
newLocationVisit(location) == [Location |-> location, Open |-> TRUE]

\* Mutant of closeLastVisit: the last visit is left without an exit time.
closeLastVisitNever(hist) == hist

\* UpdateLocation lines 173-178: the last visit gets its exit time if it has none.
closeLastVisit(hist) ==
    IF Len(hist) > 0 /\ hist[Len(hist)].Open
    THEN [hist EXCEPT ![Len(hist)].Open = FALSE]
    ELSE hist

\* UpdateLocation line 171: if ctx.Location.Current != newLocation.
UpdateLocationRead(t) ==
    /\ th[t].pc = "loc_read"
    /\ th' = [th EXCEPT ![t].pc = IF heap[th[t].ctx].Location.Current # th[t].op.loc
                                  THEN "loc_move" ELSE "put"]
    /\ UNCHANGED <<aiService, heap, npcMaps, cache, store, eventQueue, shutdownCh, workerMode,
                   saver, sd, calls, faults, accepted, rejected, applied, lastGet, arrays>>

\* UpdateLocation lines 173-182: close the last visit, Previous = Current,
\* Current = newLocation.
UpdateLocationMove(t) ==
    /\ th[t].pc = "loc_move"
    /\ heap' = [heap EXCEPT ![th[t].ctx].Location =
                  [@ EXCEPT !.LocationHistory = closeLastVisit(@),
                            !.Previous = heap[th[t].ctx].Location.Current,
                            !.Current = th[t].op.loc]]
    /\ th' = [th EXCEPT ![t].pc = "loc_append"]
    /\ UNCHANGED <<aiService, npcMaps, cache, store, eventQueue, shutdownCh, workerMode,
                   saver, sd, calls, faults, accepted, rejected, applied, lastGet, arrays>>

\* UpdateLocation lines 185-190: the new visit is appended, LocationsVisited++.
UpdateLocationAppend(t) ==
    /\ th[t].pc = "loc_append"
    /\ heap' = [heap EXCEPT
                  ![th[t].ctx].Location.LocationHistory =
                      Append(@, newLocationVisit(th[t].op.loc)),
                  ![th[t].ctx].SessionStats.LocationsVisited = @ + 1]
    /\ th' = [th EXCEPT ![t].pc = "put"]
    /\ UNCHANGED <<aiService, npcMaps, cache, store, eventQueue, shutdownCh, workerMode,
                   saver, sd, calls, faults, accepted, rejected, applied, lastGet, arrays>>

\* UpdateNPCRelationship lines 214-241 and 251: read the map entry into the
\* local copy npcRel (or make one and count it), and change the copy.  The
\* copy's KnownFacts header points to the backing array of the map's entry.
UpdateNPCRelationshipRead(t) ==
    /\ th[t].pc = "npc_read"
    /\ LET p == th[t].ctx
           m == npcMaps[heap[p].NPCStates]
           o == th[t].op
           exists == o.npc \in DOMAIN m
           npcRel == IF exists THEN m[o.npc]
                     ELSE newNPCRelationship(o.npc, o.npc, heap[p].Location.Current)
       IN /\ heap' = IF exists THEN heap
                     ELSE [heap EXCEPT ![p].SessionStats.NPCsInteracted = @ + 1]
          /\ th' = [th EXCEPT ![t].pc = "npc_fact", ![t].i = 1,
                              ![t].tmp = updatedNPCRelationship(
                                  npcRel, o.n, heap[p].Location.Current)]
    /\ UNCHANGED <<aiService, npcMaps, cache, store, eventQueue, shutdownCh, workerMode, saver, sd,
                   calls, faults, accepted, rejected, applied, lastGet, arrays>>

\* UpdateNPCRelationship line 245: contains(npcRel.KnownFacts, fact) reads
\* the backing array.
UpdateNPCRelationshipFactCheck(t) ==
    /\ th[t].pc = "npc_fact"
    /\ th[t].i <= Len(th[t].op.facts)
    /\ th' = [th EXCEPT
                ![t].pc = IF contains(sliceView(th[t].tmp.KnownFacts, arrays),
                                      th[t].op.facts[th[t].i])
                          THEN "npc_fact" ELSE "npc_append",
                ![t].i = IF contains(sliceView(th[t].tmp.KnownFacts, arrays),
                                     th[t].op.facts[th[t].i])
                         THEN @ + 1 ELSE @]
    /\ UNCHANGED <<aiService, heap, npcMaps, cache, store, eventQueue, shutdownCh, workerMode, saver,
                   sd, calls, faults, accepted, rejected, applied, lastGet, arrays>>

\* UpdateNPCRelationship line 246: npcRel.KnownFacts = append(npcRel.KnownFacts, fact).
UpdateNPCRelationshipFactAppend(t) ==
    /\ th[t].pc = "npc_append"
    /\ LET r == sliceAppend(th[t].tmp.KnownFacts, arrays, th[t].op.facts[th[t].i]) IN
       /\ arrays' = r.arrs
       /\ th' = [th EXCEPT ![t].pc = "npc_fact", ![t].i = @ + 1,
                           ![t].tmp.KnownFacts = r.sl]
    /\ UNCHANGED <<aiService, heap, npcMaps, cache, store, eventQueue, shutdownCh, workerMode, saver,
                   sd, calls, faults, accepted, rejected, applied, lastGet>>

\* UpdateNPCRelationship line 253, after the loop: ctx.NPCStates[npcID] = npcRel.
UpdateNPCRelationshipWrite(t) ==
    /\ th[t].pc = "npc_fact"
    /\ th[t].i > Len(th[t].op.facts)
    /\ LET ref == heap[th[t].ctx].NPCStates IN
       npcMaps' = [npcMaps EXCEPT ![ref] = MapPut(@, th[t].op.npc, th[t].tmp)]
    /\ th' = [th EXCEPT ![t].pc = "put", ![t].tmp = 0, ![t].i = 0]
    /\ UNCHANGED <<aiService, heap, cache, store, eventQueue, shutdownCh, workerMode, saver, sd,
                   calls, faults, accepted, rejected, applied, lastGet, arrays>>

\* Mutant of queueFull: the queue takes one event more than its capacity.
queueFullOffByOne(q) == Len(q) > eventQueueCap

\* RecordAction lines 151-160: the select sends when the channel has room
\* and takes the default branch ("event queue full") when it has none.
queueFull(q) == Len(q) >= eventQueueCap

\* RecordAction: build the event and offer it to the queue without blocking.
RecordAction(t, sessionID, kind) ==
    /\ t \in Callers
    /\ th[t].pc = "idle"
    /\ calls' = calls + 1
    /\ LET ev == newActionEvent(calls + 1, sessionID, kind) IN
       IF ~queueFull(eventQueue)
       THEN /\ eventQueue' = Append(eventQueue, ev)
            /\ accepted' = Append(accepted, ev)
            /\ UNCHANGED rejected
       ELSE /\ rejected' = rejected \cup {ev.ID}
            /\ UNCHANGED <<eventQueue, accepted>>
    /\ th' = [th EXCEPT ![t].n = @ + 1]
    /\ UNCHANGED <<aiService, heap, npcMaps, cache, store, shutdownCh, workerMode, saver, sd,
                   faults, applied, lastGet, arrays>>

\* The session ids the engine or its storage has met: uuid.New() is none of them.
usedIDs ==
    {s \in Sessions : cache[s] # NoCtx \/ s \in DOMAIN store}
      \cup {th[t].op.sid : t \in Threads}
      \cup {eventQueue[k].SessionID : k \in 1..Len(eventQueue)}

\* Mutant of SaveContext: a save that fails has already dropped the old row.
SaveContextDropOnError(p, ok) ==
    IF ok THEN MapPut(store, heap[p].SessionID, heap[p])
    ELSE [s \in DOMAIN store \ {heap[p].SessionID} |-> store[s]]

\* MemoryContextStorage.SaveContext: the storage keeps the copy *ctx under
\* ctx.SessionID.  ok = FALSE is a save that fails (the storage is unchanged).
SaveContext(p, ok) ==
    IF ok THEN MapPut(store, heap[p].SessionID, heap[p]) ELSE store

\* Mutant of DeleteContext: nothing is removed.
DeleteContextNoOp(sessionID) == store

\* MemoryContextStorage.DeleteContext: delete(s.contexts, sessionID).
DeleteContext(sessionID) == [s \in DOMAIN store \ {sessionID} |-> store[s]]

\* MemoryContextStorage.LoadContext: the copy of the stored context, or the
\* error "context not found".
LoadContext(sessionID) ==
    IF sessionID \in DOMAIN store
    THEN [found |-> TRUE, ctx |-> store[sessionID]]
    ELSE [found |-> FALSE]

\* MemoryContextStorage.ListActiveSessions: the keys of s.contexts (as a
\* set: Go ranges over a map in no fixed order).
ListActiveSessions == DOMAIN store

\* CreateSession lines 82-128: a new id, the new context, cm.cache.Store.
CreateSession(t, playerID, playerName) ==
    /\ t \in Callers
    /\ th[t].pc = "idle"
    /\ calls' = calls + 1
    /\ \E sid \in Sessions \ usedIDs :
         LET p == Len(heap) + 1 IN
         /\ heap' = Append(heap, newSessionContext(sid, playerID, playerName, p))
         /\ npcMaps' = Append(npcMaps, EmptyMap)
         /\ cache' = [cache EXCEPT ![sid] = p]
         /\ th' = [th EXCEPT ![t].pc = "cs_save", ![t].ctx = p,
                             ![t].op = [NoOp EXCEPT !.name = "CreateSession",
                                                    !.sid = sid]]
    /\ UNCHANGED <<aiService, store, eventQueue, shutdownCh, workerMode, saver, sd, faults,
                   accepted, rejected, applied, lastGet, arrays>>

\* Mutant of createSessionResult: the id is returned whatever the save did.
createSessionResultAlwaysID(sid, ok) == [sid |-> sid, err |-> ~ok]

\* CreateSession lines 130-133: "" and an error when the save failed, the
\* session id and nil otherwise.
createSessionResult(sid, ok) == [sid |-> IF ok THEN sid ELSE "", err |-> ~ok]

\* CreateSession lines 129-133: storage.SaveContext, and the return.
CreateSessionSave(t) ==
    /\ th[t].pc = "cs_save"
    /\ \E ok \in BOOLEAN :
         LET r == createSessionResult(th[t].op.sid, ok) IN
         /\ (~ok) => faults > 0
         /\ faults' = IF ok THEN faults ELSE faults - 1
         /\ store' = SaveContext(th[t].ctx, ok)
         /\ th' = [th EXCEPT ![t] =
                     [IdleThread(th[t].n + 1) EXCEPT
                         !.ret = [NoRet EXCEPT !.sid = r.sid, !.err = r.err,
                                               !.made = th[t].op.sid,
                                               !.ctx = th[t].ctx]]]
    /\ UNCHANGED <<aiService, heap, npcMaps, cache, eventQueue, shutdownCh, workerMode, saver, sd,
                   calls, accepted, rejected, applied, lastGet, arrays>>

----------------------------------------------------------------------------
(* The worker: processEvents *)

\* Mutant of received: the newest element is handed out.
receivedNewest(q) == q[Len(q)]

\* event := <-cm.eventQueue: a channel hands out its oldest element.
received(q) == Head(q)
afterReceive(q) == Tail(q)

\* Mutant of WorkerReceive: the worker takes an event only from a full queue.
WorkerReceiveWhenFull ==
    /\ th[Worker].pc = "idle"
    /\ workerMode \in {"run", "drain"}
    /\ Len(eventQueue) >= eventQueueCap
    /\ eventQueue' = afterReceive(eventQueue)
    /\ th' = [th EXCEPT ![Worker] =
                cacheLoad(Worker, OpProcessContextEvent(received(eventQueue)))]
    /\ UNCHANGED <<aiService, heap, npcMaps, cache, store, shutdownCh, workerMode, saver, sd,
                   calls, faults, accepted, rejected, applied, lastGet, arrays>>

\* processEvents lines 14-15 and 20-21: receive an event, and the cache
\* lookup of the GetContext that processContextEvent starts with.
WorkerReceive ==
    /\ th[Worker].pc = "idle"
    /\ workerMode \in {"run", "drain"}
    /\ eventQueue # <<>>
    /\ eventQueue' = afterReceive(eventQueue)
    /\ th' = [th EXCEPT ![Worker] =
                cacheLoad(Worker, OpProcessContextEvent(received(eventQueue)))]
    /\ UNCHANGED <<aiService, heap, npcMaps, cache, store, shutdownCh, workerMode, saver, sd,
                   calls, faults, accepted, rejected, applied, lastGet, arrays>>

\* processEvents line 16: the select takes the closed shutdownCh.
WorkerShutdown ==
    /\ th[Worker].pc = "idle"
    /\ workerMode = "run"
    /\ shutdownCh
    /\ workerMode' = "drain"
    /\ UNCHANGED <<aiService, heap, npcMaps, cache, store, eventQueue, shutdownCh, th, saver, sd,
                   calls, faults, accepted, rejected, applied, lastGet, arrays>>

\* Mutant of WorkerExit: the shutdown branch returns without draining.
WorkerExitNoDrain ==
    /\ th[Worker].pc = "idle"
    /\ workerMode = "drain"
    /\ workerMode' = "done"
    /\ UNCHANGED <<aiService, heap, npcMaps, cache, store, eventQueue, shutdownCh, th, saver, sd,
                   calls, faults, accepted, rejected, applied, lastGet, arrays>>

\* processEvents lines 22-23: the queue is empty, return (wg.Done).
WorkerExit ==
    /\ th[Worker].pc = "idle"
    /\ workerMode = "drain"
    /\ eventQueue = <<>>
    /\ workerMode' = "done"
    /\ UNCHANGED <<aiService, heap, npcMaps, cache, store, eventQueue, shutdownCh, th, saver, sd,
                   calls, faults, accepted, rejected, applied, lastGet, arrays>>

\* processContextEvent lines 38-44: append the action and trim the log.
ProcessAppend ==
    /\ th[Worker].pc = "ev_append"
    /\ LET w == th[Worker] IN
       /\ heap' = [heap EXCEPT ![w.ctx].Actions = appendTrim(@, w.op.ev)]
       /\ applied' = Append(applied, w.op.ev)
    /\ th' = [th EXCEPT ![Worker].pc = "ev_cons", ![Worker].i = 1]
    /\ UNCHANGED <<aiService, npcMaps, cache, store, eventQueue, shutdownCh, workerMode, saver, sd,
                   calls, faults, accepted, rejected, lastGet, arrays>>

\* processActionConsequences, the loop: a case that does nothing is skipped,
\* any other reads the field it changes.
ConsequenceRead ==
    /\ th[Worker].pc = "ev_cons"
    /\ th[Worker].i <= Len(th[Worker].op.ev.Consequences)
    /\ LET w == th[Worker]
           ev == w.op.ev
           eff == consequenceEffect(ev.Consequences[w.i], ev.Metadata)
       IN th' = [th EXCEPT ![Worker] =
                   IF eff.field = "none" THEN [w EXCEPT !.i = @ + 1]
                   ELSE [w EXCEPT !.pc = "ev_cons_write",
                                  !.tmp = IF eff.field = "reputation"
                                            THEN heap[w.ctx].Character.Reputation
                                          ELSE IF eff.field \in {"damage", "healing"}
                                            THEN heap[w.ctx].Character.Health.Current
                                          ELSE 0]]
    /\ UNCHANGED <<aiService, heap, npcMaps, cache, store, eventQueue, shutdownCh, workerMode,
                   saver, sd, calls, faults, accepted, rejected, applied, lastGet, arrays>>

\* Mutant of consequenceWrite: a reputation delta is applied twice.
consequenceWriteTwice(c, eff, tmp, ev) ==
    IF eff.field = "reputation"
    THEN [c EXCEPT !.Character.Reputation = tmp + eff.n + eff.n]
    ELSE c

\* The write of one case of processActionConsequences.
consequenceWrite(c, eff, tmp, ev) ==
    CASE eff.field = "reputation" ->
           [c EXCEPT !.Character.Reputation = tmp + eff.n]
      [] eff.field = "damage" ->
           [c EXCEPT !.Character.Health.Current =
                IF tmp - eff.n < 0 THEN 0 ELSE tmp - eff.n]
      [] eff.field = "healing" ->
           [c EXCEPT !.Character.Health.Current =
                IF tmp + eff.n > c.Character.Health.Max
                THEN c.Character.Health.Max ELSE tmp + eff.n]
      [] eff.field = "item_gained" ->
           [c EXCEPT !.Character.Inventory = Append(@, ev.Metadata["item"])]
      [] eff.field = "item_lost" ->
           [c EXCEPT !.Character.Inventory = removeItem(@, ev.Metadata["item_id"])]
      [] OTHER -> c

\* npc_noticed: the nested UpdateNPCRelationship(ctx.SessionID, npcID, npcName, 0,
\* {"noticed_player_" + action.Type}) on the relationship map m: the new
\* map and the backing arrays.
noticedNPC(m, arrs, ev, location) ==
    LET npcID == ev.Metadata["npc_id"]
        npcRel == IF npcID \in DOMAIN m THEN m[npcID]
                  ELSE newNPCRelationship(npcID, ev.Metadata["npc_name"], location)
        r == addFacts(npcRel.KnownFacts, arrs, <<"noticed_player_" \o ev.Type>>)
    IN [m |-> MapPut(m, npcID,
                     [updatedNPCRelationship(npcRel, 0, location)
                         EXCEPT !.KnownFacts = r.sl]),
        arrs |-> r.arrs]

ConsequenceWrite ==
    /\ th[Worker].pc = "ev_cons_write"
    /\ LET w == th[Worker]
           ev == w.op.ev
           eff == consequenceEffect(ev.Consequences[w.i], ev.Metadata)
           ref == heap[w.ctx].NPCStates
       IN /\ heap' = [heap EXCEPT ![w.ctx] = consequenceWrite(@, eff, w.tmp, ev)]
          /\ IF eff.field = "npc"
             THEN LET r == noticedNPC(npcMaps[ref], arrays, ev,
                                      heap[w.ctx].Location.Current)
                  IN /\ npcMaps' = [npcMaps EXCEPT ![ref] = r.m]
                     /\ arrays' = r.arrs
             ELSE UNCHANGED <<npcMaps, arrays>>
          /\ th' = [th EXCEPT ![Worker].pc = "ev_cons", ![Worker].i = @ + 1,
                              ![Worker].tmp = 0]
    /\ UNCHANGED <<aiService, cache, store, eventQueue, shutdownCh, workerMode, saver, sd,
                   calls, faults, accepted, rejected, applied, lastGet>>

\* processActionConsequences lines 136-141: the clamp after the loop.
ConsequenceClamp ==
    /\ th[Worker].pc = "ev_cons"
    /\ th[Worker].i > Len(th[Worker].op.ev.Consequences)
    /\ heap' = [heap EXCEPT ![th[Worker].ctx].Character.Reputation = ClampRep(@)]
    /\ th' = [th EXCEPT ![Worker].pc = "ev_stats", ![Worker].i = 0]
    /\ UNCHANGED <<aiService, npcMaps, cache, store, eventQueue, shutdownCh, workerMode, saver, sd,
                   calls, faults, accepted, rejected, applied, lastGet, arrays>>

\* processContextEvent line 50: cm.updateSessionStats(ctx, event.Event).
ProcessStats ==
    /\ th[Worker].pc = "ev_stats"
    /\ heap' = [heap EXCEPT ![th[Worker].ctx].SessionStats =
                              updateSessionStats(@, th[Worker].op.ev.Type)]
    /\ th' = [th EXCEPT ![Worker].pc = "put"]
    /\ UNCHANGED <<aiService, npcMaps, cache, store, eventQueue, shutdownCh, workerMode, saver, sd,
                   calls, faults, accepted, rejected, applied, lastGet, arrays>>

----------------------------------------------------------------------------
(* The periodic saver and Shutdown *)

\* The keys of cm.cache.
cached == {s \in Sessions : cache[s] # NoCtx}

\* cache.Range: every key present when the walk starts is visited, a key
\* stored during the walk may or may not be.
RangeStart(r, pc) == [r EXCEPT !.pc = pc, !.todo = cached, !.seen = {}]
RangeEnded(r) == r.todo \subseteq r.seen

\* persistentSaver lines 179-180: a tick of the ticker.
SaverTick ==
    /\ saver.pc = "wait"
    /\ saver.ticks < MaxTicks
    /\ saver' = [RangeStart(saver, "range") EXCEPT !.ticks = @ + 1]
    /\ UNCHANGED <<aiService, heap, npcMaps, cache, store, eventQueue, shutdownCh, th, workerMode,
                   sd, calls, faults, accepted, rejected, applied, lastGet, arrays>>

\* persistentSaver lines 179-180, a tick after the MaxTicks counted ones:
\* the ticker goes on firing every persistInterval for as long as the
\* engine runs.
SaverTickOn ==
    /\ saver.pc = "wait"
    /\ saver.ticks >= MaxTicks
    /\ saver' = RangeStart(saver, "range")
    /\ UNCHANGED <<aiService, heap, npcMaps, cache, store, eventQueue, shutdownCh, th, workerMode,
                   sd, calls, faults, accepted, rejected, applied, lastGet, arrays>>

\* persistentSaver lines 181-182: the select takes the closed shutdownCh.
SaverShutdown ==
    /\ saver.pc = "wait"
    /\ shutdownCh
    /\ saver' = RangeStart(saver, "final")
    /\ UNCHANGED <<aiService, heap, npcMaps, cache, store, eventQueue, shutdownCh, th, workerMode,
                   sd, calls, faults, accepted, rejected, applied, lastGet, arrays>>

\* Mutant of SaverSave: a failed save ends the Range (the callback returns false).
SaverSaveStopOnError ==
    /\ saver.pc \in {"range", "final"}
    /\ \E s \in cached \ saver.seen, ok \in BOOLEAN :
         /\ (~ok) => faults > 0
         /\ faults' = IF ok THEN faults ELSE faults - 1
         /\ store' = SaveContext(cache[s], ok)
         /\ saver' = [saver EXCEPT !.seen = IF ok THEN @ \cup {s} ELSE @ \cup cached]
    /\ UNCHANGED <<aiService, heap, npcMaps, cache, eventQueue, shutdownCh, th, workerMode,
                   sd, calls, accepted, rejected, applied, lastGet, arrays>>

\* saveAllCachedContexts, one key of the Range: SaveContext, an error is logged.
SaverSave ==
    /\ saver.pc \in {"range", "final"}
    /\ \E s \in cached \ saver.seen, ok \in BOOLEAN :
         /\ (~ok) => faults > 0
         /\ faults' = IF ok THEN faults ELSE faults - 1
         /\ store' = SaveContext(cache[s], ok)
         /\ saver' = [saver EXCEPT !.seen = @ \cup {s}]
    /\ UNCHANGED <<aiService, heap, npcMaps, cache, eventQueue, shutdownCh, th, workerMode,
                   sd, calls, accepted, rejected, applied, lastGet, arrays>>

\* saveAllCachedContexts returns: back to the select, or return (wg.Done).
SaverEnd ==
    /\ saver.pc \in {"range", "final"}
    /\ RangeEnded(saver)
    /\ saver' = [saver EXCEPT !.pc = IF saver.pc = "final" THEN "done" ELSE "wait",
                              !.todo = {}, !.seen = {}]
    /\ UNCHANGED <<aiService, heap, npcMaps, cache, store, eventQueue, shutdownCh, th, workerMode,
                   sd, calls, faults, accepted, rejected, applied, lastGet, arrays>>

\* cleanupOldContexts (events.go 199-214): every cached session of the set
\* old, those whose LastUpdate is before the cutoff, is saved (an error is
\* logged) and deleted from the cache, as one step.  No goroutine and no
\* operation of the engine calls it; SpecCleanup runs it key by key
\* (cleanupSave, cleanupDelete) for a caller of its own.
cleanupOldContexts(old) ==
    /\ store' = [s \in DOMAIN store \cup (old \cap cached) |->
                   IF s \in old \cap cached THEN heap[cache[s]] ELSE store[s]]
    /\ cache' = [s \in Keys |-> IF s \in old THEN NoCtx ELSE cache[s]]
    /\ UNCHANGED <<aiService, heap, npcMaps, eventQueue, shutdownCh, th, workerMode, saver,
                   sd, calls, faults, accepted, rejected, applied, lastGet, arrays>>

\* Shutdown line 48: close(cm.shutdownCh).
ShutdownClose ==
    /\ sd.pc = "none"
    /\ shutdownCh' = TRUE
    /\ sd' = [sd EXCEPT !.pc = "wait", !.acc = Len(accepted), !.app = Len(applied)]
    /\ UNCHANGED <<aiService, heap, npcMaps, cache, store, eventQueue, th, workerMode, saver,
                   calls, faults, accepted, rejected, applied, lastGet, arrays>>

\* Shutdown line 49: cm.wg.Wait() returns once both goroutines are done.
ShutdownWait ==
    /\ sd.pc = "wait"
    /\ workerMode = "done"
    /\ saver.pc = "done"
    /\ sd' = RangeStart(sd, "flush")
    /\ UNCHANGED <<aiService, heap, npcMaps, cache, store, eventQueue, shutdownCh, th, workerMode,
                   saver, calls, faults, accepted, rejected, applied, lastGet, arrays>>

\* Shutdown lines 52-58, one key of the Range: SaveContext, an error is logged.
ShutdownSave ==
    /\ sd.pc = "flush"
    /\ \E s \in cached \ sd.seen, ok \in BOOLEAN :
         /\ (~ok) => faults > 0
         /\ faults' = IF ok THEN faults ELSE faults - 1
         /\ store' = SaveContext(cache[s], ok)
         /\ sd' = [sd EXCEPT !.seen = @ \cup {s}, !.saved = @ \cup {s}]
    /\ UNCHANGED <<aiService, heap, npcMaps, cache, eventQueue, shutdownCh, th, workerMode,
                   saver, calls, accepted, rejected, applied, lastGet, arrays>>

\* Shutdown returns.
ShutdownReturn ==
    /\ sd.pc = "flush"
    /\ RangeEnded(sd)
    /\ sd' = [sd EXCEPT !.pc = "returned", !.racc = Len(accepted)]
    /\ UNCHANGED <<aiService, heap, npcMaps, cache, store, eventQueue, shutdownCh, th, workerMode,
                   saver, calls, faults, accepted, rejected, applied, lastGet, arrays>>

----------------------------------------------------------------------------
(* Specifications *)

\* NewContextManager: empty cache and queue, both goroutines started, over
\* a storage that holds nothing yet.
\* No AIService: the context manager holds none.
NoService == [rateLimiter |-> "nil", cache |-> "nil"]

EngineIdle ==
    /\ heap = <<>>
    /\ npcMaps = <<>>
    /\ arrays = <<>>
    /\ cache = [s \in Keys |-> NoCtx]
    /\ store = EmptyMap
    /\ eventQueue = <<>>
    /\ shutdownCh = FALSE
    /\ th = [t \in Threads |-> IdleThread(0)]
    /\ workerMode = "run"
    /\ saver = [pc |-> "wait", todo |-> {}, seen |-> {}, ticks |-> 0]
    /\ sd = [pc |-> "none", todo |-> {}, seen |-> {}, saved |-> {}, acc |-> 0, app |-> 0,
             racc |-> 0]
    /\ calls = 0
    /\ accepted = <<>>
    /\ rejected = {}
    /\ applied = <<>>
    /\ lastGet = [sid |-> "", ctx |-> NoCtx, how |-> "", had |-> FALSE,
                  prev |-> NoCtx, ret |-> [s \in Sessions |-> NoCtx]]

InitEngine == EngineIdle /\ aiService = NoService

WorkerStep ==
    \/ WorkerReceive
    \/ WorkerShutdown
    \/ WorkerExit
    \/ ProcessAppend
    \/ ConsequenceRead
    \/ ConsequenceWrite
    \/ ConsequenceClamp
    \/ ProcessStats

ShutdownStep == ShutdownClose \/ ShutdownWait \/ ShutdownSave \/ ShutdownReturn

\* What RecordAction is called with: a combat action whose consequences are
\* combat_victory (reputation +2) and health_damage (no amount: RecordAction
\* attaches no metadata).
CombatAction == [Type |-> "combat", Consequences |-> <<"combat_victory", "health_damage">>]

\* The event pipeline: one caller of RecordAction, the worker, the saver's
\* shutdown flush and Shutdown.
Init == InitEngine /\ faults = 0

Next ==
    \/ calls < MaxCalls /\ \E s \in Sessions : RecordAction(1, s, CombatAction)
    \/ GetContextLoad(Worker)
    \/ GetContextStore(Worker)
    \/ CacheStore(Worker)
    \/ WorkerStep
    \/ SaverShutdown \/ SaverSave \/ SaverEnd
    \/ ShutdownStep

Spec == Init /\ [][Next]_vars

----------------------------------------------------------------------------
(* Claims on the event pipeline (specification Spec) *)

IDs(evs) == [k \in 1..Len(evs) |-> evs[k].ID]
ForSession(evs, s) == SelectSeq(evs, LAMBDA e : e.SessionID = s)
LastN(q, n) == IF Len(q) > n THEN SubSeq(q, Len(q) - n + 1, Len(q)) ELSE q
Min(a, b) == IF a < b THEN a ELSE b

\* The worker has taken an event from the queue and not appended it yet.
WorkerHolds == th[Worker].pc \in {"gc_load", "gc_store", "ev_append"}
\* The worker has appended its event and is still applying it.
WorkerApplying == th[Worker].pc \in {"ev_cons", "ev_cons_write", "ev_stats", "put"}
Drained == eventQueue = <<>> /\ th[Worker].pc = "idle"

C2_GlobalFIFO ==
    /\ IDs(accepted) = IDs(applied)
                         \o (IF WorkerHolds THEN <<th[Worker].op.ev.ID>> ELSE <<>>)
                         \o IDs(eventQueue)
    /\ WorkerApplying =>
         /\ applied # <<>>
         /\ applied[Len(applied)].ID = th[Worker].op.ev.ID

\* C2 witness: two events for different sessions were accepted and applied,
\* the second while a third waits in the queue.
C2_Witness ==
    /\ Len(applied) >= 2
    /\ applied[1].SessionID # applied[2].SessionID
    /\ eventQueue # <<>>

\* C3: RecordAction on a full queue returns the error at once, leaves the
\* queue as it is, and the refused event is in no log, in no queue and is
\* never applied.
C3_StepOnFullQueue ==
    (calls' = calls + 1 /\ Len(eventQueue) = eventQueueCap)
        => /\ eventQueue' = eventQueue
           /\ accepted' = accepted
           /\ rejected' = rejected \cup {calls + 1}
           /\ heap' = heap /\ cache' = cache /\ store' = store /\ npcMaps' = npcMaps

C3_RefusedNowhere ==
    \A id \in rejected :
        /\ \A k \in 1..Len(eventQueue) : eventQueue[k].ID # id
        /\ \A k \in 1..Len(applied) : applied[k].ID # id
        /\ \A k \in 1..Len(accepted) : accepted[k].ID # id
        /\ \A p \in 1..Len(heap) :
             \A k \in 1..Len(heap[p].Actions) : heap[p].Actions[k].ID # id
        /\ th[Worker].op.ev.ID # id

C3_QueueFullError == [] C3_RefusedNowhere /\ [][C3_StepOnFullQueue]_vars

\* C3 witness: an event was refused, and the queue has since been drained.
C3_Witness == rejected # {} /\ Drained /\ Len(applied) = eventQueueCap

\* The events accepted before Shutdown closed shutdownCh.
AcceptedBeforeShutdown == SubSeq(accepted, 1, sd.acc)

\* C4 (as claimed): once Shutdown has returned, every cached session is in
\* the storage with the state the cache holds, and every event accepted
\* before it returned has been applied.
C4_AfterShutdownAllStored ==
    sd.pc = "returned" =>
        /\ \A s \in cached : s \in DOMAIN store /\ store[s] = heap[cache[s]]
        /\ Len(applied) >= sd.racc

\* C5: the final flush of Shutdown starts only when the worker has applied,
\* in order, every event accepted before Shutdown was called and has
\* returned; and Shutdown returns only when the flush has written every
\* session those events belong to, with their effects.
C5_FlushAfterDrain ==
    /\ sd.pc \in {"flush", "returned"} =>
         /\ workerMode = "done" /\ th[Worker].pc = "idle"
         /\ Len(applied) >= sd.acc
         /\ SubSeq(applied, 1, sd.acc) = AcceptedBeforeShutdown
         /\ \A k \in 1..sd.acc : accepted[k].SessionID \in cached
         /\ \A s \in sd.saved :
              s \in DOMAIN store /\ store[s].Actions = heap[cache[s]].Actions
    /\ sd.pc = "returned" =>
         \A k \in 1..sd.acc : accepted[k].SessionID \in sd.saved

\* C5 witness: Shutdown was called with an event still in the queue, and
\* has returned.
C5_Witness == sd.pc = "returned" /\ sd.app < sd.acc

\* C6 (as claimed): no event is accepted after Shutdown was called, and none
\* is left in the queue when Shutdown has returned.
C6_ShutdownStopsIntake ==
    /\ shutdownCh => Len(accepted) = sd.acc
    /\ sd.pc = "returned" => eventQueue = <<>>

----------------------------------------------------------------------------
(* Concurrent handlers on one session (specification SpecRace) *)

\* The action TestConcurrentAccess records: type "test", no consequences.
TestAction == [Type |-> "test", Consequences |-> <<>>]

\* TestConcurrentAccess, one goroutine: UpdateReputation(sessionID, 1),
\* UpdateCharacterHealth(sessionID, -1), RecordAction(sessionID, ...), in
\* this order, on the session the main goroutine created.
HandlerScript(t) ==
    /\ th[Main].pc = "idle"
    /\ th[Main].n = 1
    /\ \E s \in cached :
         \/ th[t].n = 0 /\ Call(t, OpUpdateReputation(s, 1))
         \/ th[t].n = 1 /\ Call(t, OpUpdateCharacterHealth(s, -1))
         \/ th[t].n = 2 /\ RecordAction(t, s, TestAction)

InitRace == InitEngine /\ faults = 0

NextRace ==
    \/ th[Main].n = 0 /\ CreateSession(Main, "player123", "TestPlayer")
    \/ CreateSessionSave(Main)
    \/ \E t \in Handlers : HandlerScript(t)
    \/ \E t \in Handlers : UpdateReputationRead(t)
    \/ \E t \in Handlers : UpdateReputationWrite(t)
    \/ \E t \in Handlers : UpdateReputationClamp(t)
    \/ \E t \in Handlers : UpdateCharacterHealthRead(t)
    \/ \E t \in Handlers : UpdateCharacterHealthWrite(t)
    \/ \E t \in Handlers : UpdateCharacterHealthClamp(t)
    \/ \E t \in Handlers : CacheStore(t)
    \/ WorkerReceive
    \/ ProcessAppend
    \/ ConsequenceClamp
    \/ ProcessStats
    \/ CacheStore(Worker)

SpecRace == InitRace /\ [][NextRace]_vars

\* Every handler has finished its three calls and the queue is drained.
AllHandlersDone ==
    /\ \A t \in Handlers : th[t].pc = "idle" /\ th[t].n = 3
    /\ Drained

\* C7 (as claimed): when every handler has finished and the queue is
\* drained, the session's reputation is the number of handlers and its
\* current health is 20 minus the number of handlers: no update is lost.
C7_NoLostUpdate ==
    AllHandlersDone =>
        \A s \in cached :
            /\ heap[cache[s]].Character.Reputation = NumHandlers
            /\ heap[cache[s]].Character.Health.Current = NewHealth - NumHandlers

----------------------------------------------------------------------------
(* The mutators and the consequence code on large amounts
   (specification SpecMutators) *)

\* The deltas the direct mutators are called with: single steps well beyond
\* the width of the reputation range and of the health range.
RepDeltas == {250, -250}
HealthDeltas == {-30, 50}

\* Metadata bags of an ActionEvent (map[string]interface{} with int values).
RepEvents ==
    { [Type |-> "quest", Consequences |-> <<"reputation_increase", "quest_completed">>,
       Metadata |-> ("reputation_change" :> 250 @@ "reputation_reward" :> 250)],
      [Type |-> "talk", Consequences |-> <<"reputation_decrease">>,
       Metadata |-> ("reputation_change" :> -250)] }

HealthEvents ==
    { [Type |-> "combat", Consequences |-> <<"health_damage">>,
       Metadata |-> ("damage" :> 30)],
      [Type |-> "combat", Consequences |-> <<"health_damage">>,
       Metadata |-> ("damage" :> -30)],
      [Type |-> "rest", Consequences |-> <<"health_heal">>,
       Metadata |-> ("healing" :> 50)],
      [Type |-> "rest", Consequences |-> <<"health_heal">>,
       Metadata |-> ("healing" :> -30)] }

\* processContextEvent(event), entered with an event whose metadata bag is
\* filled: what the consequence code does for any ActionEvent it is handed.
\* (RecordAction builds its events with an empty bag.)
processContextEvent(sessionID, kind) ==
    /\ th[Worker].pc = "idle"
    /\ workerMode = "run"
    /\ eventQueue = <<>>
    /\ calls' = calls + 1
    /\ th' = [th EXCEPT ![Worker] =
                cacheLoad(Worker, OpProcessContextEvent(
                    [newActionEvent(calls + 1, sessionID, kind)
                        EXCEPT !.Metadata = kind.Metadata]))]
    /\ UNCHANGED <<aiService, heap, npcMaps, cache, store, eventQueue, shutdownCh, workerMode,
                   saver, sd, faults, accepted, rejected, applied, lastGet, arrays>>

InitMutators == InitEngine /\ faults = 0

\* Reputation and disposition: UpdateReputation, UpdateNPCRelationship and
\* the worker's consequence code, on one session.
NextMutators ==
    \/ /\ calls < MaxCalls
       /\ \E d \in RepDeltas : Call(1, OpUpdateReputation("s1", d))
    \/ /\ calls < MaxCalls
       /\ \E n \in NPCs, d \in RepDeltas :
            Call(1, OpUpdateNPCRelationship("s1", n, d, <<>>))
    \/ /\ calls < MaxCalls
       /\ \E k \in RepEvents : processContextEvent("s1", k)
    \/ \E t \in {1, Worker} : GetContextLoad(t)
    \/ \E t \in {1, Worker} : GetContextStore(t)
    \/ UpdateReputationRead(1)
    \/ UpdateReputationWrite(1)
    \/ UpdateReputationClamp(1)
    \/ UpdateNPCRelationshipRead(1)
    \/ UpdateNPCRelationshipWrite(1)
    \/ \E t \in {1, Worker} : CacheStore(t)
    \/ ProcessAppend
    \/ ConsequenceRead
    \/ ConsequenceWrite
    \/ ConsequenceClamp
    \/ ProcessStats

SpecMutators == InitMutators /\ [][NextMutators]_vars

\* Health: UpdateCharacterHealth and the worker's consequence code, on one
\* session.
NextHealth ==
    \/ /\ calls < MaxCalls
       /\ \E d \in HealthDeltas : Call(1, OpUpdateCharacterHealth("s1", d))
    \/ /\ calls < MaxCalls
       /\ \E k \in HealthEvents : processContextEvent("s1", k)
    \/ \E t \in {1, Worker} : GetContextLoad(t)
    \/ \E t \in {1, Worker} : GetContextStore(t)
    \/ UpdateCharacterHealthRead(1)
    \/ UpdateCharacterHealthWrite(1)
    \/ UpdateCharacterHealthClamp(1)
    \/ \E t \in {1, Worker} : CacheStore(t)
    \/ ProcessAppend
    \/ ConsequenceRead
    \/ ConsequenceWrite
    \/ ConsequenceClamp
    \/ ProcessStats

SpecHealth == InitMutators /\ [][NextHealth]_vars

\* No call and no event is in progress.
Quiescent == \A t \in Threads : th[t].pc = "idle"

InRepRange(v) == RepMin <= v /\ v <= RepMax

\* C8: when the calls so far have completed and the events so far have been
\* processed, the reputation of every session and the disposition of every
\* NPC are within [-100, 100].
C8_ReputationWithinBounds ==
    Quiescent =>
        \A p \in 1..Len(heap) :
            /\ InRepRange(heap[p].Character.Reputation)
            /\ \A n \in DOMAIN npcMaps[heap[p].NPCStates] :
                 InRepRange(npcMaps[heap[p].NPCStates][n].Disposition)

\* C8 witness: after an UpdateReputation, an UpdateNPCRelationship and an
\* event, each with a delta beyond 200 downwards, reputation and disposition
\* sit at the lower limit.
C8_Witness ==
    /\ Quiescent
    /\ cache["s1"] # NoCtx
    /\ Len(applied) >= 1
    /\ applied[Len(applied)].Consequences = <<"reputation_decrease">>
    /\ heap[cache["s1"]].Character.Reputation = RepMin
    /\ \E n \in DOMAIN npcMaps[heap[cache["s1"]].NPCStates] :
         npcMaps[heap[cache["s1"]].NPCStates][n].Disposition = RepMin

----------------------------------------------------------------------------
(* GetContext over a storage that already holds a session
   (specification SpecStorage) *)

\* The session TestMemoryStorage saves: health 15 of 20.
StoredContext ==
    [ createNewContext("s1", 1) EXCEPT
        !.PlayerID = "player456",
        !.Character.Name = "TestChar",
        !.Character.Health.Current = 15 ]

\* NewContextManager over a storage in which "s1" was saved earlier and
\* "s2" never was; the storage can fail MaxFaults times.
InitStorage ==
    /\ aiService = NoService
    /\ heap = <<StoredContext>>
    /\ npcMaps = <<EmptyMap>>
    /\ arrays = <<>>
    /\ cache = [s \in Keys |-> NoCtx]
    /\ store = MapPut(EmptyMap, "s1", StoredContext)
    /\ eventQueue = <<>>
    /\ shutdownCh = FALSE
    /\ th = [t \in Threads |-> IdleThread(0)]
    /\ workerMode = "run"
    /\ saver = [pc |-> "wait", todo |-> {}, seen |-> {}, ticks |-> 0]
    /\ sd = [pc |-> "none", todo |-> {}, seen |-> {}, saved |-> {}, acc |-> 0, app |-> 0,
             racc |-> 0]
    /\ calls = 0
    /\ faults = MaxFaults
    /\ accepted = <<>>
    /\ rejected = {}
    /\ applied = <<>>
    /\ lastGet = [sid |-> "", ctx |-> NoCtx, how |-> "", had |-> FALSE,
                  prev |-> NoCtx, ret |-> [s \in Sessions |-> NoCtx]]

NextStorage ==
    \/ /\ calls < MaxCalls
       /\ \E t \in Handlers, s \in Sessions : Call(t, OpGetContext(s))
    \/ \E t \in Handlers : GetContextLoad(t)
    \/ \E t \in Handlers : GetContextStore(t)
    \/ \E t \in Handlers : GetContextReturn(t)
    \/ SaverTick
    \/ SaverSave
    \/ SaverEnd

SpecStorage == InitStorage /\ [][NextStorage]_vars

\* C10 (as claimed): a GetContext that has returned left its id in the
\* cache, returned a synthesized skeleton only if the storage did not hold
\* the id, and returned the stored session if the storage held it and the
\* cache did not.
C10_GetContextThreeCases ==
    lastGet.sid # "" =>
        /\ cache[lastGet.sid] # NoCtx
        /\ lastGet.how = "created" => ~lastGet.had
        /\ lastGet.how = "loaded" => lastGet.had

----------------------------------------------------------------------------
(* CreateSession over a storage that can fail (specification SpecCreate) *)

InitCreate == InitEngine /\ faults = MaxFaults

\* The main goroutine creates sessions; the periodic saver and Shutdown run.
NextCreate ==
    \/ calls < MaxCalls /\ CreateSession(Main, "p1", "Aragorn")
    \/ CreateSessionSave(Main)
    \/ SaverTick
    \/ SaverShutdown
    \/ SaverSave
    \/ SaverEnd
    \/ WorkerShutdown
    \/ WorkerExit
    \/ ShutdownStep

SpecCreate == InitCreate /\ [][NextCreate]_vars

\* The last CreateSession of the main goroutine has returned.
Created == th[Main].pc = "idle" /\ th[Main].ret.made # ""

\* C11: a CreateSession that returned no error returned the non-empty id it
\* generated, and that id is in the cache and in the storage with the given
\* player id and name, health 20/20, reputation 0, location
\* "starting_village" and an empty log.
C11_CreateSessionCreates ==
    (Created /\ ~th[Main].ret.err) =>
        LET sid == th[Main].ret.sid IN
        /\ sid # ""
        /\ sid = th[Main].ret.made
        /\ cache[sid] = th[Main].ret.ctx
        /\ sid \in DOMAIN store
        /\ \A c \in {heap[cache[sid]], store[sid]} :
             /\ c.SessionID = sid
             /\ c.PlayerID = "p1"
             /\ c.Character.Name = "Aragorn"
             /\ c.Character.Health = [Current |-> NewHealth, Max |-> NewHealth]
             /\ c.Character.Reputation = 0
             /\ c.Location.Current = "starting_village"
             /\ c.Actions = <<>>

\* C11 witness: a second session was created successfully after the first.
C11_Witness ==
    /\ Created
    /\ ~th[Main].ret.err
    /\ th[Main].n = 2
    /\ Cardinality(DOMAIN store) = 2

\* A step in which CreateSession returns after a save that failed (the step
\* uses up a storage fault) returns an error and the empty session id.
C12_StepOnFailedSave ==
    (th[Main].pc = "cs_save" /\ th'[Main].pc = "idle" /\ faults' < faults)
        => /\ th'[Main].ret.err
           /\ th'[Main].ret.sid = ""

\* C12: when the save fails CreateSession returns an error and the empty
\* session id, and an id it did return is in the storage.
C12_FailedCreateReturnsNoID ==
    /\ [](Created => (th[Main].ret.sid # "" => th[Main].ret.sid \in DOMAIN store))
    /\ [][C12_StepOnFailedSave]_vars

\* C12 witness: a CreateSession has returned after its save failed.
C12_Witness == Created /\ th[Main].ret.err /\ th[Main].ret.made \notin DOMAIN store

\* C13 (as claimed): the session of a CreateSession that failed is not in
\* the cache (so GetActiveSessions does not list it) and not in the storage.
C13_FailedCreateNotLive ==
    (Created /\ th[Main].ret.err) =>
        /\ cache[th[Main].ret.made] = NoCtx
        /\ th[Main].ret.made \notin DOMAIN store

----------------------------------------------------------------------------
(* What a caller holds after GetContext (specification SpecOwnership) *)

\* The name a caller writes into the value it was handed.
CallerMark == "changed by caller"

\* A caller assigns to a field of the value its last GetContext returned
\* (ctx.Character.Name = ...): GetContext returned the *PlayerContext that
\* the cache holds, so the assignment is a write to that object.
CallerWrite ==
    /\ lastGet.ctx # NoCtx
    /\ heap[lastGet.ctx].Character.Name # CallerMark
    /\ heap' = [heap EXCEPT ![lastGet.ctx].Character.Name = CallerMark]
    /\ UNCHANGED <<aiService, npcMaps, cache, store, eventQueue, shutdownCh, th, workerMode, saver,
                   sd, calls, faults, accepted, rejected, applied, lastGet, arrays>>

InitOwnership == InitEngine /\ faults = 0

NextOwnership ==
    \/ /\ calls < MaxCalls
       /\ \E t \in Handlers, s \in Sessions : Call(t, OpGetContext(s))
    \/ \E t \in Handlers : GetContextLoad(t)
    \/ \E t \in Handlers : GetContextStore(t)
    \/ \E t \in Handlers : GetContextReturn(t)
    \/ CallerWrite
    \/ SaverTick
    \/ SaverSave
    \/ SaverEnd

SpecOwnership == InitOwnership /\ [][NextOwnership]_vars

\* C14 (as claimed): what a caller does to a value GetContext returned
\* changes neither a session held in the cache nor what a flush writes to
\* the storage.
C14_ReturnedValueIsCopy ==
    /\ \A s \in cached : heap[cache[s]].Character.Name # CallerMark
    /\ \A s \in DOMAIN store : store[s].Character.Name # CallerMark

----------------------------------------------------------------------------
(* A handler reads a session while the worker applies the first event for
   it (specification SpecResume) *)

InitResume == InitEngine /\ faults = 0

\* Handler 1 records actions for "s1", handler 2 calls GetContext("s1"),
\* the worker processes the queue; "s1" is not in the cache at the start.
NextResume ==
    \/ calls < MaxCalls /\ RecordAction(1, "s1", CombatAction)
    \/ calls < MaxCalls /\ Call(2, OpGetContext("s1"))
    \/ \E t \in {2, Worker} : GetContextLoad(t)
    \/ \E t \in {2, Worker} : GetContextStore(t)
    \/ GetContextReturn(2)
    \/ WorkerReceive
    \/ ProcessAppend
    \/ ConsequenceRead
    \/ ConsequenceWrite
    \/ ConsequenceClamp
    \/ ProcessStats
    \/ CacheStore(Worker)

SpecResume == InitResume /\ [][NextResume]_vars

\* How often the event with this id occurs in a log.
Occurrences(log, id) == Cardinality({k \in 1..Len(log) : log[k].ID = id})

\* C15 (as claimed): once the queue is drained and no call is in progress,
\* every accepted event is in its session's log exactly once (while the log
\* is not yet trimmed), the session's reputation carries the combat_victory
\* delta of each accepted event once, and TotalActions is the number of
\* events accepted for the session.
C15_AppliedExactlyOnce ==
    (Drained /\ Quiescent) =>
        \A s \in Sessions :
            LET acc == ForSession(accepted, s) IN
            acc # <<>> =>
                /\ s \in cached
                /\ heap[cache[s]].SessionStats.TotalActions = Len(acc)
                /\ heap[cache[s]].Character.Reputation = CombatVictoryRep * Len(acc)
                /\ \A k \in 1..Len(acc) :
                     Occurrences(heap[cache[s]].Actions, acc[k].ID)
                        = (IF k > Len(acc) - maxActions THEN 1 ELSE 0)

----------------------------------------------------------------------------
(* The pipeline without Shutdown, the worker scheduled fairly
   (specification SpecLive) *)

\* The steps of the worker goroutine while shutdownCh is open.
WorkerRun ==
    \/ WorkerReceive
    \/ GetContextLoad(Worker)
    \/ GetContextStore(Worker)
    \/ ProcessAppend
    \/ ConsequenceRead
    \/ ConsequenceWrite
    \/ ConsequenceClamp
    \/ ProcessStats
    \/ CacheStore(Worker)

\* Handler 1 records actions, handler 2 reads sessions, the worker runs.
NextLive ==
    \/ calls < MaxCalls /\ \E s \in Sessions : RecordAction(1, s, CombatAction)
    \/ calls < MaxCalls /\ \E s \in Sessions : Call(2, OpGetContext(s))
    \/ GetContextLoad(2)
    \/ GetContextStore(2)
    \/ GetContextReturn(2)
    \/ WorkerRun

\* The Go scheduler runs a runnable goroutine eventually: weak fairness of
\* the worker's steps.
SpecLive == Init /\ [][NextLive]_vars /\ WF_vars(WorkerRun)

\* The worker has just finished the k-th accepted event: the event is in
\* the log of its session as the cache holds it, and the session's
\* TotalActions has counted it.
AppliedNow(k) ==
    /\ Len(applied) = k
    /\ th[Worker].pc = "idle"
    /\ LET s == accepted[k].SessionID IN
       /\ s \in cached
       /\ \E j \in 1..Len(heap[cache[s]].Actions) :
            heap[cache[s]].Actions[j].ID = accepted[k].ID
       /\ heap[cache[s]].SessionStats.TotalActions >= 1

\* C16: RecordAction can always take its step (it returns at once, with or
\* without the event accepted), and every event that is accepted is
\* eventually applied to its session.
C16_AcceptedEventuallyApplied ==
    /\ [](\A s \in Sessions : ENABLED RecordAction(1, s, CombatAction))
    /\ \A k \in 1..MaxCalls : [](Len(accepted) < k) \/ <>AppliedNow(k)

\* C16 witness: every call was accepted or refused, one was refused on a
\* full queue, and all accepted events are applied.
C16_Witness ==
    /\ calls = MaxCalls
    /\ rejected # {}
    /\ Len(accepted) >= eventQueueCap
    /\ Len(applied) = Len(accepted)
    /\ Drained

----------------------------------------------------------------------------
(* The rule table as RecordAction reaches it (specification SpecRules) *)

\* Actions as a caller records them: one per consequence tag of the rule
\* table that needs no payload, the two health tags, and tags the table
\* does not know.
RuleActions ==
    { [Type |-> "talk", Consequences |-> <<"reputation_increase">>],
      [Type |-> "talk", Consequences |-> <<"reputation_decrease">>],
      [Type |-> "combat", Consequences |-> <<"combat_victory">>],
      [Type |-> "combat", Consequences |-> <<"combat_defeat">>],
      [Type |-> "combat", Consequences |-> <<"health_damage">>],
      [Type |-> "rest", Consequences |-> <<"health_heal">>],
      [Type |-> "emote", Consequences |-> <<"combat_success", "level_up">>] }

InitRules == InitEngine /\ faults = 0

\* One caller records actions for "s1"; the worker applies them.
NextRules ==
    \/ calls < MaxCalls /\ \E k \in RuleActions : RecordAction(1, "s1", k)
    \/ WorkerRun

SpecRules == InitRules /\ [][NextRules]_vars

\* The reputation delta the rule table documents for a tag.
DocumentedDelta(tag) ==
    CASE tag = "reputation_increase" -> 5
      [] tag = "reputation_decrease" -> -10
      [] tag = "combat_victory" -> 2
      [] tag = "combat_defeat" -> -1
      [] OTHER -> 0

RECURSIVE SumTags(_)
SumTags(tags) ==
    IF tags = <<>> THEN 0 ELSE DocumentedDelta(Head(tags)) + SumTags(Tail(tags))

RECURSIVE SumEvents(_)
SumEvents(evs) ==
    IF evs = <<>> THEN 0 ELSE SumTags(Head(evs).Consequences) + SumEvents(Tail(evs))

\* C17: when the worker has finished the events applied so far, the
\* reputation of the new session is the sum of their documented deltas
\* (+5, -10, +2, -1); after a single reputation_increase or combat_victory
\* it is greater than 0.
C17_DocumentedReputationDeltas ==
    (th[Worker].pc = "idle" /\ cache["s1"] # NoCtx) =>
        LET rep == heap[cache["s1"]].Character.Reputation IN
        /\ rep = SumEvents(applied)
        /\ (Len(applied) = 1 /\ applied[1].Consequences[1]
                \in {"reputation_increase", "combat_victory"}) => rep > 0

\* C17 witness: a reputation_decrease, a combat_victory and a combat_defeat
\* have been applied.
C17_Witness ==
    /\ th[Worker].pc = "idle"
    /\ Len(applied) = 3
    /\ {applied[k].Consequences[1] : k \in 1..3}
          = {"reputation_decrease", "combat_victory", "combat_defeat"}
    /\ heap[cache["s1"]].Character.Reputation = -9

\* C18 (as claimed): when the only events applied so far carry
\* health_damage, the new session's current health is below its maximum.
C18_HealthDamageReducesHealth ==
    (th[Worker].pc = "idle" /\ applied # <<>>
       /\ \A k \in 1..Len(applied) : applied[k].Consequences = <<"health_damage">>)
        => heap[cache["s1"]].Character.Health.Current
              < heap[cache["s1"]].Character.Health.Max

\* The tags of the rule table.
KnownTags ==
    {"reputation_increase", "reputation_decrease", "health_damage", "health_heal",
     "npc_noticed", "combat_victory", "combat_defeat", "quest_completed",
     "item_gained", "item_lost"}

AllUnknown(tags) == \A k \in 1..Len(tags) : tags[k] \notin KnownTags

\* A step of the worker on an event whose tags are all unknown leaves the
\* character (reputation, health, inventory), the location and the NPC
\* relationships of every session as they were.
C19_StepOnUnknownTags ==
    (th[Worker].op.name = "processContextEvent"
       /\ AllUnknown(th[Worker].op.ev.Consequences))
        => /\ \A p \in 1..Len(npcMaps) : npcMaps'[p] = npcMaps[p]
           /\ \A p \in 1..Len(heap) :
                /\ heap'[p].Character = heap[p].Character
                /\ heap'[p].Location = heap[p].Location
                /\ heap'[p].NPCStates = heap[p].NPCStates

\* C19: processing an event whose tags are all unknown changes no game
\* state; once it is processed the log holds it and TotalActions counts it.
C19_UnknownTagsNoOp ==
    /\ [][C19_StepOnUnknownTags]_vars
    /\ []((th[Worker].pc = "idle" /\ cache["s1"] # NoCtx) =>
            heap[cache["s1"]].SessionStats.TotalActions = Len(applied))

\* C19 witness: an event with unknown tags was applied after one that
\* changed the reputation.
C19_Witness ==
    /\ th[Worker].pc = "idle"
    /\ Len(applied) = 2
    /\ applied[1].Consequences = <<"reputation_increase">>
    /\ AllUnknown(applied[2].Consequences)
    /\ heap[cache["s1"]].Character.Reputation = 5
    /\ Len(heap[cache["s1"]].Actions) = 2

----------------------------------------------------------------------------
(* Handlers telling an NPC facts (specification SpecFacts) *)

\* The fact lists UpdateNPCRelationship is called with: new facts, a list
\* with the same fact twice, and lists that overlap.
FactLists == {<<"a", "b", "c">>, <<"a", "a">>, <<"d", "e">>, <<"e">>}

InitFacts == InitEngine /\ faults = 0

\* The handlers call UpdateNPCRelationship for one NPC of one session.
NextFacts ==
    \/ /\ calls < MaxCalls
       /\ \E t \in Handlers, n \in NPCs, f \in FactLists :
            Call(t, OpUpdateNPCRelationship("s1", n, 10, f))
    \/ \E t \in Handlers : GetContextLoad(t)
    \/ \E t \in Handlers : GetContextStore(t)
    \/ \E t \in Handlers : UpdateNPCRelationshipRead(t)
    \/ \E t \in Handlers : UpdateNPCRelationshipFactCheck(t)
    \/ \E t \in Handlers : UpdateNPCRelationshipFactAppend(t)
    \/ \E t \in Handlers : UpdateNPCRelationshipWrite(t)
    \/ \E t \in Handlers : CacheStore(t)

SpecFacts == InitFacts /\ [][NextFacts]_vars

NoDuplicate(q) == \A i, j \in 1..Len(q) : q[i] = q[j] => i = j

\* C20 (as claimed): no NPC's known-facts list ever holds a fact twice.
C20_KnownFactsIsSet ==
    \A r \in 1..Len(npcMaps) :
        \A n \in DOMAIN npcMaps[r] :
            NoDuplicate(sliceView(npcMaps[r][n].KnownFacts, arrays))

----------------------------------------------------------------------------
(* calculateMood on every disposition (specification SpecMood) *)

InitMood == InitEngine /\ faults = 0

\* One UpdateNPCRelationship on a new NPC, with each change that leads to
\* a disposition in [-100, 100].
NextMood ==
    \/ /\ th[1].n = 0
       /\ \E n \in NPCs, d \in RepMin..RepMax :
            Call(1, OpUpdateNPCRelationship("s1", n, d, <<>>))
    \/ GetContextLoad(1)
    \/ GetContextStore(1)
    \/ UpdateNPCRelationshipRead(1)
    \/ UpdateNPCRelationshipWrite(1)
    \/ CacheStore(1)

SpecMood == InitMood /\ [][NextMood]_vars

MoodLabels == {"friendly", "helpful", "neutral", "suspicious", "unfriendly", "hostile"}

\* The range of dispositions the thresholds give a label.
MoodRange(label) ==
    CASE label = "friendly" -> {d \in RepMin..RepMax : d >= 50}
      [] label = "helpful" -> 25..49
      [] label = "neutral" -> 0..24
      [] label = "suspicious" -> -25..-1
      [] label = "unfriendly" -> -50..-26
      [] label = "hostile" -> {d \in RepMin..RepMax : d < -50}

\* Every NPC relationship record of every session.
NPCRecords == UNION {{npcMaps[r][n] : n \in DOMAIN npcMaps[r]} : r \in 1..Len(npcMaps)}

----------------------------------------------------------------------------
(* Handlers changing an NPC's disposition (specification SpecNPC) *)

\* The <<dispositionChange, facts>> arguments UpdateNPCRelationship is
\* called with: changes past either bound, TestContextManager_UpdateNPCRelationship's
\* call, and a change that crosses mood thresholds.
NPCUpdates == {<<150, <<>>>>, <<-150, <<>>>>,
               <<15, <<"friendly_greeting", "helpful">>>>, <<-40, <<>>>>}

InitNPC == InitEngine /\ faults = 0

\* As many calls as there are handlers, by any of them.
NextNPC ==
    \/ /\ calls < NumHandlers
       /\ \E t \in Handlers, n \in NPCs, u \in NPCUpdates :
            Call(t, OpUpdateNPCRelationship("s1", n, u[1], u[2]))
    \/ \E t \in Handlers : GetContextLoad(t)
    \/ \E t \in Handlers : GetContextStore(t)
    \/ \E t \in Handlers : UpdateNPCRelationshipRead(t)
    \/ \E t \in Handlers : UpdateNPCRelationshipFactCheck(t)
    \/ \E t \in Handlers : UpdateNPCRelationshipFactAppend(t)
    \/ \E t \in Handlers : UpdateNPCRelationshipWrite(t)
    \/ \E t \in Handlers : CacheStore(t)

SpecNPC == InitNPC /\ [][NextNPC]_vars

\* C22: in every reachable state every NPC record's disposition is within
\* [-100, 100] and its mood is calculateMood of that disposition.
C22_MoodFollowsDisposition ==
    \A rec \in NPCRecords :
        /\ InRepRange(rec.Disposition)
        /\ rec.Mood = calculateMood(rec.Disposition)

\* C22 witness: a change of +150 on a new NPC has left the disposition at
\* 100 and the mood "friendly".
C22_Witness ==
    /\ calls = 1
    /\ \E t \in Handlers : th[t].pc = "idle" /\ th[t].n = 1
    /\ \E rec \in NPCRecords :
         /\ rec.InteractionCount = 1
         /\ rec.Disposition = RepMax
         /\ rec.Mood = "friendly"

\* The step by which handler t writes the record of an NPC the session
\* has not met, called with +15 and two distinct facts.
C23_StepOnNewNPC(t) ==
    /\ th[t].pc = "npc_fact"
    /\ th'[t].pc = "put"
    /\ th[t].op.n = 15
    /\ Len(th[t].op.facts) = 2
    /\ th[t].op.facts[1] # th[t].op.facts[2]
    /\ th[t].op.npc \notin DOMAIN npcMaps[heap[th[t].ctx].NPCStates]

\* C23 (as claimed): UpdateNPCRelationship on an NPC the session has not met, with +15
\* and two distinct facts, leaves a record with disposition 15, mood
\* "helpful" and exactly two known facts.
C23_NewNPCRecord ==
    [][\A t \in Handlers :
         C23_StepOnNewNPC(t) =>
           LET rec == npcMaps'[heap[th[t].ctx].NPCStates][th[t].op.npc]
           IN /\ rec.Disposition = 15
              /\ rec.Mood = "helpful"
              /\ Len(sliceView(rec.KnownFacts, arrays')) = 2]_vars

----------------------------------------------------------------------------
(* Sessions moving between locations (specification SpecLocation) *)

Locations == {"starting_village", "new_forest"}

InitLocation == InitEngine /\ faults = 0

\* The main goroutine creates sessions; the handlers move them, and also
\* sessions nobody created.
NextLocation ==
    \/ calls < MaxCalls /\ CreateSession(Main, "p1", "Aragorn")
    \/ CreateSessionSave(Main)
    \/ /\ calls < MaxCalls
       /\ \E t \in Handlers, s \in Sessions, l \in Locations :
            Call(t, OpUpdateLocation(s, l))
    \/ \E t \in Handlers : GetContextLoad(t)
    \/ \E t \in Handlers : GetContextStore(t)
    \/ \E t \in Handlers : UpdateLocationRead(t)
    \/ \E t \in Handlers : UpdateLocationMove(t)
    \/ \E t \in Handlers : UpdateLocationAppend(t)
    \/ \E t \in Handlers : CacheStore(t)

SpecLocation == InitLocation /\ [][NextLocation]_vars

\* The positions of the visits without an exit time.
OpenVisits(hist) == {k \in 1..Len(hist) : hist[k].Open}

\* C24 (as claimed): in every reachable state every cached session's
\* location history has exactly one visit without an exit time, and that
\* visit's location is the current location.
C24_OneOpenVisit ==
    \A s \in Sessions :
        cache[s] # NoCtx =>
            LET l == heap[cache[s]].Location IN
            /\ Cardinality(OpenVisits(l.LocationHistory)) = 1
            /\ \A k \in OpenVisits(l.LocationHistory) :
                 l.LocationHistory[k].Location = l.Current

----------------------------------------------------------------------------
(* The periodic flush over a storage that can fail (specification SpecFlush) *)

InitFlush == InitEngine /\ faults = MaxFaults

\* One handler brings sessions into the cache and changes them; the ticker
\* fires; Shutdown runs.
NextFlush ==
    \/ /\ calls < MaxCalls
       /\ \E s \in Sessions :
            \/ Call(1, OpGetContext(s))
            \/ Call(1, OpUpdateReputation(s, DefaultRepIncrease))
    \/ GetContextLoad(1)
    \/ GetContextStore(1)
    \/ GetContextReturn(1)
    \/ UpdateReputationRead(1)
    \/ UpdateReputationWrite(1)
    \/ UpdateReputationClamp(1)
    \/ CacheStore(1)
    \/ SaverTick
    \/ SaverShutdown
    \/ SaverSave
    \/ SaverEnd
    \/ WorkerShutdown
    \/ WorkerExit
    \/ ShutdownStep

SpecFlush == InitFlush /\ [][NextFlush]_vars

\* A step of the saver's Range over the cache, and the step that ends a
\* periodic flush.
C25_SaveStep == saver.pc \in {"range", "final"} /\ saver'.seen # saver.seen
C25_TickEnds == saver.pc = "range" /\ saver'.pc = "wait"

\* C25: a save of the periodic saver, failed or not, leaves the cache and
\* the cached sessions as they are; a failed one leaves the storage as it
\* is, a successful one stores the session's cached state, whatever
\* happened to the session in earlier flushes; and when a periodic flush
\* ends, no more of the sessions cached at its start are missing from the
\* storage than saves have failed.
C25_FlushSurvivesFailedSave ==
    [][/\ C25_SaveStep =>
            /\ cache' = cache
            /\ heap' = heap
            /\ faults' < faults => store' = store
            /\ faults' = faults =>
                 \A s \in saver'.seen \ saver.seen :
                     /\ s \in DOMAIN store'
                     /\ store'[s] = heap[cache[s]]
       /\ C25_TickEnds =>
            Cardinality(saver.todo \ DOMAIN store) <= MaxFaults - faults]_vars

\* C25 witness: a save has failed, the ticker has fired, Shutdown has
\* returned, and both cached sessions are in the storage in their cached state.
C25_Witness ==
    /\ faults < MaxFaults
    /\ saver.ticks > 0
    /\ sd.pc = "returned"
    /\ cached = Sessions
    /\ \A s \in cached : s \in DOMAIN store /\ store[s] = heap[cache[s]]

----------------------------------------------------------------------------
(* The running engine and an idle session (specification SpecEvict) *)

InitEvict == InitEngine /\ faults = 0

\* A handler brings sessions into the cache and then leaves them alone;
\* the persistentSaver goroutine runs and its ticker fires for ever (the
\* worker has no event to process).
NextEvict ==
    \/ calls < MaxCalls /\ \E s \in Sessions : Call(1, OpGetContext(s))
    \/ GetContextLoad(1)
    \/ GetContextStore(1)
    \/ GetContextReturn(1)
    \/ SaverTick
    \/ SaverTickOn
    \/ SaverSave
    \/ SaverEnd

\* The Go scheduler runs every runnable goroutine eventually, and the
\* ticker fires: weak fairness of the engine's steps.
SpecEvict == InitEvict /\ [][NextEvict]_vars /\ WF_vars(NextEvict)

\* No call is running and none will come: the cached sessions stay
\* untouched while tick after tick of persistInterval passes.
Untouched ==
    /\ calls = MaxCalls
    /\ \A t \in Threads : th[t].pc = "idle"

\* C26 (as claimed): a cached session that stays untouched is eventually
\* out of the cache and in the storage.
C26_IdleSessionEvicted ==
    \A s \in Sessions :
        (cache[s] # NoCtx /\ Untouched) ~> (cache[s] = NoCtx /\ s \in DOMAIN store)

----------------------------------------------------------------------------
(* The engine over a storage that can fail (specification SpecDurable) *)

\* The number of operations the main goroutine calls.
MaxOps == 2

InitDurable == InitEngine /\ faults = MaxFaults

\* The main goroutine creates, reads and changes sessions, one call after
\* the other; the periodic saver and Shutdown run beside it.  These are the
\* callers of storage.SaveContext; the worker, which has no event here,
\* calls the storage only through GetContext.
NextDurable ==
    \/ calls < MaxOps /\ CreateSession(Main, "p1", "Aragorn")
    \/ CreateSessionSave(Main)
    \/ /\ calls < MaxOps
       /\ \E s \in Sessions :
            \/ Call(Main, OpGetContext(s))
            \/ Call(Main, OpUpdateReputation(s, DefaultRepIncrease))
    \/ GetContextLoad(Main)
    \/ GetContextStore(Main)
    \/ CacheStore(Main)
    \/ GetContextReturn(Main)
    \/ UpdateReputationRead(Main)
    \/ UpdateReputationWrite(Main)
    \/ UpdateReputationClamp(Main)
    \/ WorkerShutdown
    \/ WorkerExit
    \/ SaverTick
    \/ SaverShutdown
    \/ SaverSave
    \/ SaverEnd
    \/ ShutdownStep

SpecDurable == InitDurable /\ [][NextDurable]_vars

\* C29: no step of the engine takes a session id out of the storage.
C29_StoreNeverShrinks ==
    [][DOMAIN store \subseteq DOMAIN store']_vars

\* C29 witness: Shutdown has returned after a save has failed, and the
\* storage holds both sessions.
C29_Witness ==
    /\ sd.pc = "returned"
    /\ faults < MaxFaults
    /\ DOMAIN store = Sessions

----------------------------------------------------------------------------
(* The mutators called with empty arguments (specification SpecMalformed) *)

\* Calls with an empty session id, an empty location, an empty NPC id, and
\* well-formed ones.
MutatorCalls ==
    {OpUpdateLocation(s, l) : s \in Keys, l \in {"", "new_forest"}}
      \cup {OpUpdateNPCRelationship(s, n, DefaultRepIncrease, <<>>) :
              s \in Keys, n \in {"", "npc1"}}
      \cup {OpUpdateReputation(s, DefaultRepIncrease) : s \in Keys}
      \cup {OpUpdateCharacterHealth(s, DefaultRepDecrease) : s \in Keys}

InitMalformed == InitEngine /\ faults = 0

\* Handler 1 calls the mutators one after the other.
NextMalformed ==
    \/ calls < MaxCalls /\ \E o \in MutatorCalls : Call(1, o)
    \/ GetContextLoad(1)
    \/ GetContextStore(1)
    \/ UpdateLocationRead(1)
    \/ UpdateLocationMove(1)
    \/ UpdateLocationAppend(1)
    \/ UpdateNPCRelationshipRead(1)
    \/ UpdateNPCRelationshipWrite(1)
    \/ UpdateReputationRead(1)
    \/ UpdateReputationWrite(1)
    \/ UpdateReputationClamp(1)
    \/ UpdateCharacterHealthRead(1)
    \/ UpdateCharacterHealthWrite(1)
    \/ UpdateCharacterHealthClamp(1)
    \/ CacheStore(1)

SpecMalformed == InitMalformed /\ [][NextMalformed]_vars

\* A call with an empty session id, location or NPC id.
Malformed(o) ==
    /\ o.name # ""
    /\ \/ o.sid = ""
       \/ o.name = "UpdateLocation" /\ o.loc = ""
       \/ o.name = "UpdateNPCRelationship" /\ o.npc = ""

\* The cache and the sessions in it are what they were.
CacheUnchanged ==
    /\ cache' = cache
    /\ \A k \in Keys :
         cache[k] # NoCtx =>
             /\ heap'[cache[k]] = heap[cache[k]]
             /\ npcMaps'[heap[cache[k]].NPCStates] = npcMaps[heap[cache[k]].NPCStates]

\* C27 (as claimed): no step of a mutator called with an empty session id,
\* location or NPC id changes the cache or a cached session, and the call
\* returns an error.
C27_MalformedInputRejected ==
    [][Malformed(th[1].op) =>
          /\ CacheUnchanged
          /\ th'[1].pc = "idle" => th'[1].ret.err]_vars

----------------------------------------------------------------------------
(* The in-memory storage called directly (specification SpecMemStore) *)

\* The contexts the caller holds: two states of "s1" and one of "s2".
CallerContexts ==
    << StoredContext,
       [createNewContext("s1", 2) EXCEPT !.Character.Reputation = DefaultRepIncrease],
       createNewContext("s2", 3) >>

\* NewMemoryStorage, and the caller's contexts.
InitMemStore ==
    /\ aiService = NoService
    /\ heap = CallerContexts
    /\ npcMaps = <<EmptyMap, EmptyMap, EmptyMap>>
    /\ arrays = <<>>
    /\ cache = [s \in Keys |-> NoCtx]
    /\ store = EmptyMap
    /\ eventQueue = <<>>
    /\ shutdownCh = FALSE
    /\ th = [t \in Threads |-> IdleThread(0)]
    /\ workerMode = "run"
    /\ saver = [pc |-> "wait", todo |-> {}, seen |-> {}, ticks |-> 0]
    /\ sd = [pc |-> "none", todo |-> {}, seen |-> {}, saved |-> {}, acc |-> 0, app |-> 0,
             racc |-> 0]
    /\ calls = 0
    /\ faults = 0
    /\ accepted = <<>>
    /\ rejected = {}
    /\ applied = <<>>
    /\ lastGet = [sid |-> "", ctx |-> NoCtx, how |-> "", had |-> FALSE,
                  prev |-> NoCtx, ret |-> [s \in Sessions |-> NoCtx]]

\* The caller has returned from a storage call: what it called, and the result.
Returned(t, name, sid, p, ret) ==
    [IdleThread(th[t].n + 1) EXCEPT
        !.op = [NoOp EXCEPT !.name = name, !.sid = sid, !.n = p],
        !.ret = ret]

\* storage.SaveContext(ctx) for the caller's context p.
StorageSave(t, p) ==
    /\ th[t].pc = "idle"
    /\ calls' = calls + 1
    /\ store' = SaveContext(p, TRUE)
    /\ th' = [th EXCEPT ![t] = Returned(t, "SaveContext", heap[p].SessionID, p, NoRet)]
    /\ UNCHANGED <<aiService, heap, npcMaps, cache, eventQueue, shutdownCh, workerMode, saver, sd,
                   faults, accepted, rejected, applied, lastGet, arrays>>

\* storage.DeleteContext(sessionID).
StorageDelete(t, sessionID) ==
    /\ th[t].pc = "idle"
    /\ calls' = calls + 1
    /\ store' = DeleteContext(sessionID)
    /\ th' = [th EXCEPT ![t] = Returned(t, "DeleteContext", sessionID, 0, NoRet)]
    /\ UNCHANGED <<aiService, heap, npcMaps, cache, eventQueue, shutdownCh, workerMode, saver, sd,
                   faults, accepted, rejected, applied, lastGet, arrays>>

\* storage.LoadContext(sessionID): the caller gets a new copy, or an error.
StorageLoad(t, sessionID) ==
    /\ th[t].pc = "idle"
    /\ calls' = calls + 1
    /\ LET r == LoadContext(sessionID) IN
       /\ heap' = IF r.found THEN Append(heap, r.ctx) ELSE heap
       /\ npcMaps' = IF r.found THEN Append(npcMaps, EmptyMap) ELSE npcMaps
       /\ th' = [th EXCEPT ![t] =
                   Returned(t, "LoadContext", sessionID, 0,
                            [NoRet EXCEPT !.sid = sessionID, !.err = ~r.found,
                                          !.ctx = IF r.found THEN Len(heap) + 1
                                                  ELSE NoCtx])]
    /\ UNCHANGED <<aiService, cache, store, eventQueue, shutdownCh, workerMode, saver, sd,
                   faults, accepted, rejected, applied, lastGet, arrays>>

\* The orders in which a range over a map can yield the keys in ids.
Orderings(ids) ==
    {q \in [1..Cardinality(ids) -> ids] : \A i, j \in DOMAIN q : q[i] = q[j] => i = j}

\* storage.ListActiveSessions().
StorageList(t) ==
    /\ th[t].pc = "idle"
    /\ calls' = calls + 1
    /\ \E q \in Orderings(ListActiveSessions) :
         th' = [th EXCEPT ![t] =
                  Returned(t, "ListActiveSessions", "", 0, [NoRet EXCEPT !.list = q])]
    /\ UNCHANGED <<aiService, heap, npcMaps, cache, store, eventQueue, shutdownCh, workerMode,
                   saver, sd, faults, accepted, rejected, applied, lastGet, arrays>>

\* The ids the caller asks for: the sessions and an id never saved.
StorageIDs == Sessions \cup {"nonexistent"}

NextMemStore ==
    \/ calls < MaxCalls /\ \E p \in 1..Len(CallerContexts) : StorageSave(Main, p)
    \/ calls < MaxCalls /\ \E s \in StorageIDs : StorageDelete(Main, s)
    \/ calls < MaxCalls /\ \E s \in StorageIDs : StorageLoad(Main, s)
    \/ calls < MaxCalls /\ StorageList(Main)

SpecMemStore == InitMemStore /\ [][NextMemStore]_vars

\* The elements of a sequence.
Range(q) == {q[k] : k \in DOMAIN q}

\* The call the caller has just returned from.
C28_Did(name) == th'[Main].n = th[Main].n + 1 /\ th'[Main].op.name = name

\* What LoadContext gives for every id but sid is what it gave.
C28_OthersKept(sid) ==
    \A o \in StorageIDs \ {sid} : LoadContext(o)' = LoadContext(o)

\* C28: SaveContext adds its id to what ListActiveSessions returns and makes
\* LoadContext of that id return the context just saved, whatever was saved
\* for the id before; DeleteContext takes its id out of the list and makes
\* LoadContext of it fail; neither changes any other id; LoadContext and
\* ListActiveSessions change nothing, LoadContext returns the stored
\* context exactly for the listed ids and an error for any other, and
\* ListActiveSessions returns each stored id once.
C28_MemoryStoreContract ==
    [][/\ \A p \in 1..Len(CallerContexts) :
            (C28_Did("SaveContext") /\ th'[Main].op.n = p) =>
               LET sid == CallerContexts[p].SessionID
               IN /\ ListActiveSessions' = ListActiveSessions \cup {sid}
                  /\ LoadContext(sid)' = [found |-> TRUE, ctx |-> CallerContexts[p]]
                  /\ C28_OthersKept(sid)
       /\ \A sid \in StorageIDs :
            /\ (C28_Did("DeleteContext") /\ th'[Main].op.sid = sid) =>
                  /\ ListActiveSessions' = ListActiveSessions \ {sid}
                  /\ ~LoadContext(sid)'.found
                  /\ C28_OthersKept(sid)
            /\ (C28_Did("LoadContext") /\ th'[Main].op.sid = sid) =>
                  /\ store' = store
                  /\ th'[Main].ret.err <=> sid \notin ListActiveSessions
                  /\ ~th'[Main].ret.err =>
                         heap'[th'[Main].ret.ctx] = LoadContext(sid).ctx
       /\ C28_Did("ListActiveSessions") =>
            /\ store' = store
            /\ Range(th'[Main].ret.list) = ListActiveSessions
            /\ Len(th'[Main].ret.list) = Cardinality(ListActiveSessions)]_vars

\* C28 witness: the caller's third call was a LoadContext of "s1" that
\* returned the second of the two states it holds for "s1".
C28_Witness ==
    /\ th[Main].op.name = "LoadContext"
    /\ th[Main].op.sid = "s1"
    /\ th[Main].n = 3
    /\ ~th[Main].ret.err
    /\ heap[th[Main].ret.ctx] = CallerContexts[2]

----------------------------------------------------------------------------
(* The recent actions handed to the language model (specification SpecRecent) *)

\* The longest log the session is given.
MaxLog == 6

\* The ActionEvent fields the summaries read.
loggedAction(k) ==
    [ ID |-> k, SessionID |-> "s1", Type |-> "combat",
      Command |-> "command " \o ToString(k), Outcome |-> "outcome " \o ToString(k) ]

\* Mutant of GetRecentActions: the first count actions are returned.
GetRecentActionsOldest(actions, count) ==
    IF Len(actions) > count THEN SubSeq(actions, 1, count) ELSE actions

\* GetRecentActions lines 311-314: actions[len(actions)-count:] when the log
\* is longer than count.
GetRecentActions(actions, count) ==
    IF Len(actions) > count
    THEN SubSeq(actions, Len(actions) - count + 1, Len(actions))
    ELSE actions

\* getActionSummary line 165: fmt.Sprintf("%s: %s -> %s", Type, Command, Outcome).
actionSummary(action) ==
    action.Type \o ": " \o action.Command \o " -> " \o action.Outcome

\* getActionSummary: the summaries of the actions from startIdx on, or the
\* one line "No recent actions".
getActionSummary(actions, count) ==
    IF Len(actions) = 0 THEN <<"No recent actions">>
    ELSE LET startIdx == IF Len(actions) - count < 0 THEN 0 ELSE Len(actions) - count
         IN [i \in 1..(Len(actions) - startIdx) |-> actionSummary(actions[startIdx + i])]

\* formatRecentActions line 267: "- %s ago: %s (%s) -> %s" (without the time).
actionEntry(action) ==
    "- " \o action.Command \o " (" \o action.Type \o ") -> " \o action.Outcome

\* formatRecentActions: one entry per action (joined by "\n"), or the one
\* line "- No recent actions".
formatRecentActions(actions) ==
    IF Len(actions) = 0 THEN <<"- No recent actions">>
    ELSE [i \in 1..Len(actions) |-> actionEntry(actions[i])]

\* GetRecentActions returns.
GetRecentActionsReturn(t) ==
    /\ th[t].pc = "ra_return"
    /\ th' = [th EXCEPT ![t] =
                Returned(t, th[t].op.name, th[t].op.sid, th[t].op.n,
                         [NoRet EXCEPT !.list = GetRecentActions(heap[th[t].ctx].Actions,
                                                                 th[t].op.n)])]
    /\ UNCHANGED <<aiService, heap, npcMaps, cache, store, eventQueue, shutdownCh, workerMode,
                   saver, sd, calls, faults, accepted, rejected, applied, lastGet, arrays>>

\* The outcomes the logged actions have, and those of them in which
\* strings.Contains(strings.ToLower(action.Outcome), "success") holds.
Outcomes == {"Great Success!", "You fail."}
hasSuccess(outcome) == outcome \in {"Great Success!"}

isCombat(action) == action.Type \in {"combat", "attack"}
isSocial(action) == action.Type \in {"talk", "social"}
isExplore(action) == action.Type \in {"explore", "examine"}
isSuccess(action) == hasSuccess(action.Outcome)

\* The counters of the loop of lines 220-234 over a run of actions.
countActions(actions) ==
    LET count(kind) == Cardinality({i \in 1..Len(actions) :
                           CASE kind = "combat"  -> isCombat(actions[i])
                             [] kind = "social"  -> isSocial(actions[i])
                             [] kind = "explore" -> isExplore(actions[i])
                             [] kind = "success" -> isSuccess(actions[i])})
    IN [combatCount |-> count("combat"), socialCount |-> count("social"),
        exploreCount |-> count("explore"), successCount |-> count("success")]

\* determinePlayerMood lines 236-256 on the counts of the actions looked at;
\* successRate > 0.6 is 10 * successCount > 6 * totalRecent, and likewise
\* for 0.7 and 0.3.
moodOfCounts(combatCount, socialCount, exploreCount, successCount, totalRecent) ==
    IF combatCount > socialCount /\ combatCount > exploreCount
    THEN IF 10 * successCount > 6 * totalRecent THEN "confident" ELSE "aggressive"
    ELSE IF socialCount > combatCount /\ socialCount > exploreCount THEN "diplomatic"
    ELSE IF exploreCount > combatCount THEN "curious"
    ELSE IF 10 * successCount > 7 * totalRecent THEN "triumphant"
    ELSE IF 10 * successCount < 3 * totalRecent THEN "frustrated"
    ELSE "focused"

\* Mutant of determinePlayerMood: the whole log is looked at.
determinePlayerMoodWholeLog(actions) ==
    IF Len(actions) = 0 THEN "curious"
    ELSE LET c == countActions(actions)
         IN moodOfCounts(c.combatCount, c.socialCount, c.exploreCount, c.successCount,
                         Len(actions))

\* determinePlayerMood: "curious" for an empty log, otherwise the mood of
\* the actions from startIdx = max(0, len - 5) on.
determinePlayerMood(actions) ==
    IF Len(actions) = 0 THEN "curious"
    ELSE LET startIdx == IF Len(actions) - 5 < 0 THEN 0 ELSE Len(actions) - 5
             recent == SubSeq(actions, startIdx + 1, Len(actions))
             c == countActions(recent)
         IN moodOfCounts(c.combatCount, c.socialCount, c.exploreCount, c.successCount,
                         Len(actions) - startIdx)

\* GetContextSummary lines 16-26: RecentActions is getActionSummary(ctx.Actions, 5),
\* PlayerMood is determinePlayerMood(ctx).
GetContextSummaryReturn(t) ==
    /\ th[t].pc = "cs_return"
    /\ th' = [th EXCEPT ![t] =
                Returned(t, th[t].op.name, th[t].op.sid, 0,
                         [NoRet EXCEPT !.list = getActionSummary(heap[th[t].ctx].Actions, 5),
                                       !.mood = determinePlayerMood(heap[th[t].ctx].Actions)])]
    /\ UNCHANGED <<aiService, heap, npcMaps, cache, store, eventQueue, shutdownCh, workerMode,
                   saver, sd, calls, faults, accepted, rejected, applied, lastGet, arrays>>

\* GenerateAIPrompt lines 39-42: summary, err := cm.GetContextSummary(sessionID).
GenerateAIPromptSummary(t) ==
    /\ th[t].pc = "ap_summary"
    /\ th' = [th EXCEPT ![t].pc = "ap_recent",
                        ![t].tmp = [summary |-> getActionSummary(heap[th[t].ctx].Actions, 5),
                                    recent |-> <<>>]]
    /\ UNCHANGED <<aiService, heap, npcMaps, cache, store, eventQueue, shutdownCh, workerMode,
                   saver, sd, calls, faults, accepted, rejected, applied, lastGet, arrays>>

\* GenerateAIPrompt lines 44-47: recentActions, err := cm.GetRecentActions(sessionID, 3).
GenerateAIPromptRecent(t) ==
    /\ th[t].pc = "ap_recent"
    /\ th' = [th EXCEPT ![t].pc = "ap_return",
                        ![t].tmp.recent = GetRecentActions(heap[cache[th[t].op.sid]].Actions, 3)]
    /\ UNCHANGED <<aiService, heap, npcMaps, cache, store, eventQueue, shutdownCh, workerMode,
                   saver, sd, calls, faults, accepted, rejected, applied, lastGet, arrays>>

\* GenerateAIPrompt lines 54-103: the section RECENT PLAYER ACTIONS of the
\* prompt is formatRecentActions(recentActions).
GenerateAIPromptReturn(t) ==
    /\ th[t].pc = "ap_return"
    /\ th' = [th EXCEPT ![t] =
                Returned(t, th[t].op.name, th[t].op.sid, 0,
                         [NoRet EXCEPT !.list = formatRecentActions(th[t].tmp.recent)])]
    /\ UNCHANGED <<aiService, heap, npcMaps, cache, store, eventQueue, shutdownCh, workerMode,
                   saver, sd, calls, faults, accepted, rejected, applied, lastGet, arrays>>

\* An engine whose cache holds the session "s1" with a log of 0 to MaxLog actions.
InitRecent ==
    /\ aiService = NoService
    /\ \E k \in 0..MaxLog :
         heap = <<[createNewContext("s1", 1) EXCEPT
                     !.Actions = [i \in 1..k |-> loggedAction(i)]]>>
    /\ npcMaps = <<EmptyMap>>
    /\ arrays = <<>>
    /\ cache = [s \in Keys |-> IF s = "s1" THEN 1 ELSE NoCtx]
    /\ store = EmptyMap
    /\ eventQueue = <<>>
    /\ shutdownCh = FALSE
    /\ th = [t \in Threads |-> IdleThread(0)]
    /\ workerMode = "run"
    /\ saver = [pc |-> "wait", todo |-> {}, seen |-> {}, ticks |-> 0]
    /\ sd = [pc |-> "none", todo |-> {}, seen |-> {}, saved |-> {}, acc |-> 0, app |-> 0,
             racc |-> 0]
    /\ calls = 0
    /\ faults = 0
    /\ accepted = <<>>
    /\ rejected = {}
    /\ applied = <<>>
    /\ lastGet = [sid |-> "", ctx |-> NoCtx, how |-> "", had |-> FALSE,
                  prev |-> NoCtx, ret |-> [s \in Sessions |-> NoCtx]]

\* The main goroutine asks for the recent actions, the summary and the prompt.
NextRecent ==
    \/ calls < MaxCalls /\ \E n \in 0..(MaxLog + 1) : Call(Main, OpGetRecentActions("s1", n))
    \/ calls < MaxCalls /\ Call(Main, OpGetContextSummary("s1"))
    \/ calls < MaxCalls /\ Call(Main, OpGenerateAIPrompt("s1"))
    \/ GetRecentActionsReturn(Main)
    \/ GetContextSummaryReturn(Main)
    \/ GenerateAIPromptSummary(Main)
    \/ GenerateAIPromptRecent(Main)
    \/ GenerateAIPromptReturn(Main)

SpecRecent == InitRecent /\ [][NextRecent]_vars

\* The main goroutine has returned from the call name.
C30_Returned(name) == th[Main].pc = "idle" /\ th[Main].op.name = name

\* list is made, by the conversion line, of the last limit actions of the
\* log (of all of them when the log has fewer), in the log's order.
C30_LastOf(list, log, limit, line(_)) ==
    /\ Len(list) = Min(limit, Len(log))
    /\ \A i \in 1..Len(list) : list[i] = line(log[Len(log) - Len(list) + i])

C30_Itself(action) == action

\* C30: GetRecentActions(id, n) returns exactly the last min(n, length)
\* actions of the log in the log's order; the summary lists at most 5 and
\* the prompt at most 3 actions, the most recent ones in the log's order.
C30_RecentActionsBounded ==
    LET log == heap[cache["s1"]].Actions
        list == th[Main].ret.list
    IN /\ C30_Returned("GetRecentActions") =>
            C30_LastOf(list, log, th[Main].op.n, C30_Itself)
       /\ C30_Returned("GetContextSummary") =>
            /\ Len(list) <= 5
            /\ log # <<>> => C30_LastOf(list, log, 5, actionSummary)
       /\ C30_Returned("GenerateAIPrompt") =>
            /\ Len(list) <= 3
            /\ log # <<>> => C30_LastOf(list, log, 3, actionEntry)

\* C30 witness: the prompt of a session with MaxLog actions has been made,
\* with the last 3 of them.
C30_Witness ==
    /\ C30_Returned("GenerateAIPrompt")
    /\ Len(heap[cache["s1"]].Actions) = MaxLog
    /\ Len(th[Main].ret.list) = 3
    /\ th[Main].ret.list[3] = actionEntry(loggedAction(MaxLog))

----------------------------------------------------------------------------
(* The player mood of the summary (specification SpecPlayerMood) *)

\* The kinds of action the logs are made of: won and lost fights, a
\* successful talk, a failed exploration.
MoodActions ==
    { [ID |-> 0, SessionID |-> "s1", Type |-> "combat", Command |-> "attack goblin",
       Outcome |-> "Great Success!"],
      [ID |-> 0, SessionID |-> "s1", Type |-> "attack", Command |-> "attack troll",
       Outcome |-> "You fail."],
      [ID |-> 0, SessionID |-> "s1", Type |-> "talk", Command |-> "greet",
       Outcome |-> "Great Success!"],
      [ID |-> 0, SessionID |-> "s1", Type |-> "examine", Command |-> "look",
       Outcome |-> "You fail."] }

\* An engine whose cache holds the session "s1" with any log of 0 to
\* MaxLog of these actions.
InitPlayerMood ==
    /\ aiService = NoService
    /\ \E k \in 0..MaxLog : \E log \in [1..k -> MoodActions] :
         heap = <<[createNewContext("s1", 1) EXCEPT !.Actions = log]>>
    /\ npcMaps = <<EmptyMap>>
    /\ arrays = <<>>
    /\ cache = [s \in Keys |-> IF s = "s1" THEN 1 ELSE NoCtx]
    /\ store = EmptyMap
    /\ eventQueue = <<>>
    /\ shutdownCh = FALSE
    /\ th = [t \in Threads |-> IdleThread(0)]
    /\ workerMode = "run"
    /\ saver = [pc |-> "wait", todo |-> {}, seen |-> {}, ticks |-> 0]
    /\ sd = [pc |-> "none", todo |-> {}, seen |-> {}, saved |-> {}, acc |-> 0, app |-> 0,
             racc |-> 0]
    /\ calls = 0
    /\ faults = 0
    /\ accepted = <<>>
    /\ rejected = {}
    /\ applied = <<>>
    /\ lastGet = [sid |-> "", ctx |-> NoCtx, how |-> "", had |-> FALSE,
                  prev |-> NoCtx, ret |-> [s \in Sessions |-> NoCtx]]

\* The main goroutine asks for the summary once.
NextPlayerMood ==
    \/ th[Main].n = 0 /\ Call(Main, OpGetContextSummary("s1"))
    \/ GetContextSummaryReturn(Main)

SpecPlayerMood == InitPlayerMood /\ [][NextPlayerMood]_vars

PlayerMoods ==
    {"confident", "aggressive", "diplomatic", "curious", "triumphant", "frustrated",
     "focused"}

\* C31: the mood GetContextSummary returns is one of the seven moods, it
\* is "curious" for an empty log, it is the mood of the log's last 5
\* actions alone, and of these 5 with any older action before them.
C31_MoodOfLastFive ==
    C30_Returned("GetContextSummary") =>
        LET log == heap[cache["s1"]].Actions
            mood == th[Main].ret.mood
        IN /\ mood \in PlayerMoods
           /\ log = <<>> => mood = "curious"
           /\ mood = determinePlayerMood(LastN(log, 5))
           /\ Len(log) >= 5 =>
                \A older \in MoodActions :
                    determinePlayerMood(<<older>> \o LastN(log, 5)) = mood

\* C31 witness: the summary of a log of more than 5 actions whose oldest
\* action was a success and whose mood is "frustrated".
C31_Witness ==
    /\ C30_Returned("GetContextSummary")
    /\ Len(heap[cache["s1"]].Actions) > 5
    /\ th[Main].ret.mood = "frustrated"
    /\ isSuccess(heap[cache["s1"]].Actions[1])

----------------------------------------------------------------------------
(* The rate limiter of the AI service (src/unnamed/part_005).  Time is a
   count of ticks; a time.Duration is a number of ticks.  Allow runs under
   rl.mutex, so it is one step.  Durations shorter than maxRequests ticks
   (refillRate 0, a division by zero in Allow) and elapsed times near 2^63
   nanoseconds (292 years) are not modelled. *)

MaxRequests == 3
MaxDuration == 5
MaxTime == 6
MaxAllow == 4

\* NewRateLimiter: a full bucket, refilled by one token per duration / maxRequests.
NewRateLimiter(maxRequests, duration, now) ==
    [tokens |-> maxRequests, maxTokens |-> maxRequests,
     refillRate |-> duration \div maxRequests, lastRefill |-> now]

\* Mutant of Allow: the refilled bucket is not capped at maxTokens.
AllowUncapped(rl, now) ==
    LET tokensToAdd == (now - rl.lastRefill) \div rl.refillRate
        refilled == IF tokensToAdd > 0
                    THEN [rl EXCEPT !.tokens = rl.tokens + tokensToAdd, !.lastRefill = now]
                    ELSE rl
    IN IF refilled.tokens > 0
       THEN [rl |-> [refilled EXCEPT !.tokens = @ - 1], ok |-> TRUE]
       ELSE [rl |-> refilled, ok |-> FALSE]

\* Allow: the limiter after the call and what the call returns.
Allow(rl, now) ==
    LET tokensToAdd == (now - rl.lastRefill) \div rl.refillRate
        refilled == IF tokensToAdd > 0
                    THEN [rl EXCEPT !.tokens = IF rl.tokens + tokensToAdd > rl.maxTokens
                                                THEN rl.maxTokens
                                                ELSE rl.tokens + tokensToAdd,
                                    !.lastRefill = now]
                    ELSE rl
    IN IF refilled.tokens > 0
       THEN [rl |-> [refilled EXCEPT !.tokens = @ - 1], ok |-> TRUE]
       ELSE [rl |-> refilled, ok |-> FALSE]

engineVars == <<heap, npcMaps, cache, store, eventQueue, shutdownCh, th, workerMode, saver,
                sd, calls, faults, accepted, rejected, applied, lastGet, arrays>>

\* A limiter made at time 0; allowed is the history of the calls of Allow:
\* when each was made, what it returned, and whether it found the bucket
\* full (after its refill).
InitRateLimiter ==
    /\ EngineIdle
    /\ faults = 0
    /\ \E maxRequests \in 1..MaxRequests : \E duration \in maxRequests..MaxDuration :
         aiService = [rateLimiter |-> NewRateLimiter(maxRequests, duration, 0),
                      cache |-> "nil", now |-> 0, allowed |-> <<>>]

ClockTick ==
    /\ aiService.now < MaxTime
    /\ aiService' = [aiService EXCEPT !.now = @ + 1]
    /\ UNCHANGED engineVars

RateLimiterAllow ==
    /\ Len(aiService.allowed) < MaxAllow
    /\ LET r == Allow(aiService.rateLimiter, aiService.now)
       IN aiService' = [aiService EXCEPT
                          !.rateLimiter = r.rl,
                          !.allowed = Append(@, [at |-> aiService.now, ok |-> r.ok,
                                                 full |-> r.ok /\ r.rl.tokens =
                                                              r.rl.maxTokens - 1])]
    /\ UNCHANGED engineVars

NextRateLimiter == ClockTick \/ RateLimiterAllow

SpecRateLimiter == InitRateLimiter /\ [][NextRateLimiter]_vars

\* C32: the token count stays within [0, N]; of the calls of Allow made with
\* no time passing from one that found the bucket full, exactly the first N
\* return true and every later one false; the first call finds the bucket
\* full; and a call of Allow made at least one refill interval after the call
\* before it (or after the limiter was made) returns true.
C32_TokenBucket ==
    LET rl == aiService.rateLimiter
        allowed == aiService.allowed
    IN /\ rl.tokens \in 0..rl.maxTokens
       /\ Len(allowed) > 0 => allowed[1].full
       /\ \A k \in 1..Len(allowed) : \A j \in k..Len(allowed) :
            allowed[k].full /\ allowed[j].at = allowed[k].at
                => (allowed[j].ok <=> j - k < rl.maxTokens)
       /\ \A k \in 1..Len(allowed) :
            LET before == IF k = 1 THEN 0 ELSE allowed[k - 1].at
            IN allowed[k].at - before >= rl.refillRate => allowed[k].ok

\* A full bucket was emptied by N calls, the call after them was refused, and
\* a call one refill interval later was allowed.
C32_Witness ==
    LET rl == aiService.rateLimiter
        allowed == aiService.allowed
    IN /\ rl.maxTokens = 2
       /\ Len(allowed) = 4
       /\ allowed[1].ok /\ allowed[2].ok /\ ~allowed[3].ok
       /\ allowed[3].at = allowed[1].at
       /\ allowed[4].at = allowed[3].at + rl.refillRate
       /\ allowed[4].ok

----------------------------------------------------------------------------
(* generateWithRetry (src/ai-rpg-mvp/ai/service.go).  An error message is the
   sequence of its words (joined by single spaces); strings.ToLower maps
   every word to its lower-case form and strings.Contains looks for the
   words of a pattern side by side.  The provider answers every call, with a
   response or with an error; the sleep between two attempts is not
   modelled. *)

MaxMaxRetries == 2

\* The errors the provider fails with.
ProviderErrors ==
    { <<"authentication", "failed">>, <<"Unauthorized", "access">>, <<"403", "Forbidden">>,
      <<"quota", "exceeded">>, <<"Invalid", "API", "key">>, <<"Billing", "hold">>,
      <<"payment", "required">>, <<"network", "timeout">>, <<"server", "error">>,
      <<"quota", "nearly", "exceeded">> }

\* strings.ToLower on the words the errors are made of.
ToLower(s) ==
    [i \in 1..Len(s) |->
        CASE s[i] = "Unauthorized" -> "unauthorized"
          [] s[i] = "Forbidden"    -> "forbidden"
          [] s[i] = "Invalid"      -> "invalid"
          [] s[i] = "API"          -> "api"
          [] s[i] = "Billing"      -> "billing"
          [] OTHER                 -> s[i]]

\* strings.Contains
Contains(s, substr) ==
    \E i \in 0..(Len(s) - Len(substr)) : SubSeq(s, i + 1, i + Len(substr)) = substr

nonRetryablePatterns ==
    << <<"authentication">>, <<"unauthorized">>, <<"forbidden">>, <<"quota", "exceeded">>,
       <<"invalid", "api", "key">>, <<"billing">>, <<"payment">> >>

\* Mutant of isNonRetryableError: the message is not lower-cased.
isNonRetryableErrorCaseSensitive(err) ==
    \E k \in 1..Len(nonRetryablePatterns) : Contains(err, nonRetryablePatterns[k])

isNonRetryableError(err) ==
    LET errStr == ToLower(err)
    IN \E k \in 1..Len(nonRetryablePatterns) : Contains(errStr, nonRetryablePatterns[k])

\* A call of generateWithRetry under a configuration with MaxRetries; fn is
\* the history of what the provider returned, one entry per call.
InitRetry ==
    /\ EngineIdle
    /\ faults = 0
    /\ \E MaxRetries \in 0..MaxMaxRetries :
         aiService = [rateLimiter |-> "nil", cache |-> "nil",
                      config |-> [MaxRetries |-> MaxRetries],
                      pc |-> "loop", attempt |-> 0, lastErr |-> <<>>, fn |-> <<>>,
                      response |-> "", err |-> FALSE]

\* One turn of the loop of lines 187-204.
generateWithRetryAttempt ==
    /\ aiService.pc = "loop"
    /\ aiService.attempt <= aiService.config.MaxRetries
    /\ \/ aiService' = [aiService EXCEPT !.fn = Append(@, [err |-> <<>>, ok |-> TRUE]),
                                         !.response = "response",
                                         !.pc = "returned"]
       \/ \E err \in ProviderErrors :
            aiService' = [aiService EXCEPT
                            !.fn = Append(@, [err |-> err, ok |-> FALSE]),
                            !.lastErr = err,
                            !.attempt = IF isNonRetryableError(err) THEN @ ELSE @ + 1,
                            !.pc = IF isNonRetryableError(err) THEN "failed" ELSE "loop"]
    /\ UNCHANGED engineVars

\* Line 206, after the break or the end of the loop.
generateWithRetryFail ==
    /\ \/ aiService.pc = "failed"
       \/ aiService.pc = "loop" /\ aiService.attempt > aiService.config.MaxRetries
    /\ aiService' = [aiService EXCEPT !.pc = "returned", !.err = TRUE]
    /\ UNCHANGED engineVars

NextRetry == generateWithRetryAttempt \/ generateWithRetryFail

SpecRetry == InitRetry /\ [][NextRetry]_vars /\ WF_vars(NextRetry)

\* The words of the claim's errors that are not retried.
C33_NonRetryable(err) ==
    \E i \in 1..Len(err) :
        err[i] \in {"authentication", "Unauthorized", "Forbidden", "Invalid", "Billing",
                    "payment"}
        \/ (i < Len(err) /\ err[i] = "quota" /\ err[i + 1] = "exceeded")

C33_Calls ==
    LET fn == aiService.fn
    IN /\ Len(fn) <= aiService.config.MaxRetries + 1
       /\ \A k \in 1..Len(fn) : fn[k].ok => k = Len(fn)
       /\ Len(fn) > 0 /\ ~fn[1].ok /\ C33_NonRetryable(fn[1].err) => Len(fn) = 1
       /\ aiService.pc = "returned" =>
            /\ aiService.err <=> aiService.response = ""
            /\ ~aiService.err <=> (Len(fn) > 0 /\ fn[Len(fn)].ok)

\* C33: generateWithRetry calls the provider at most MaxRetries + 1 times,
\* makes no call after a successful one and returns its response, makes one
\* call only when the first error is one of the non-retryable ones, and
\* always returns, with a response or with an error.
C33_RetryBounded == [](C33_Calls) /\ <>(aiService.pc = "returned")

\* A call that failed twice with errors that are retried and returned the
\* response of the third call.
C33_Witness ==
    /\ aiService.pc = "returned"
    /\ ~aiService.err
    /\ Len(aiService.fn) = 3
    /\ aiService.fn[1].err = <<"network", "timeout">>
    /\ aiService.fn[2].err = <<"quota", "nearly", "exceeded">>

----------------------------------------------------------------------------
(* The response cache of GenerateGMResponse (service.go 78-111, part_005
   69-126).  A string is the sequence of its code points; hashString keeps
   its uint32 width.  The service has no rate limiter here, and the provider
   answers a prompt with a reply that names the prompt, or fails. *)

MaxPrompt == 2
CacheTTL == 1

\* The code points of "A", "B" and "a".
CodePoints == {65, 66, 97}
Prompts == UNION {[1..n -> CodePoints] : n \in 1..MaxPrompt}

HexDigits == <<"0", "1", "2", "3", "4", "5", "6", "7", "8", "9", "a", "b", "c", "d", "e", "f">>

\* A uint32 is kept as its two 16-bit halves, [hi, lo]: h*31 + c in uint32.
timesPlus(h, c) ==
    LET lo == h.lo * 31 + c
    IN [hi |-> (h.hi * 31 + (lo \div 65536)) % 65536, lo |-> lo % 65536]

\* The four hexadecimal digits of a 16-bit number.
hex4(n) ==
    <<HexDigits[((n \div 4096) % 16) + 1], HexDigits[((n \div 256) % 16) + 1],
      HexDigits[((n \div 16) % 16) + 1], HexDigits[(n % 16) + 1]>>

\* fmt.Sprintf("%08x", h) of a uint32: its eight hexadecimal digits.
Sprintf08x(h) == hex4(h.hi) \o hex4(h.lo)

\* hashString: h = h*31 + uint32(c) over the characters, in uint32.
hashString(s) ==
    LET h[i \in 0..Len(s)] == IF i = 0 THEN [hi |-> 0, lo |-> 0]
                              ELSE timesPlus(h[i - 1], s[i])
    IN Sprintf08x(h[Len(s)])

\* fmt.Sprintf("gm:%s", hashString(prompt))
cacheKey(prompt) == <<"g", "m", ":">> \o hashString(prompt)

\* What the provider answers to a prompt.
providerResponse(prompt) == <<"reply to">> \o prompt

\* ResponseCache.Get: the value of an entry that exists and has not expired, else "".
ResponseCacheGet(rc, key, now) ==
    IF key \notin DOMAIN rc THEN ""
    ELSE IF now - rc[key].timestamp > CacheTTL THEN ""
    ELSE rc[key].value

\* ResponseCache.Set
ResponseCacheSet(rc, key, value, now) ==
    [k \in DOMAIN rc \cup {key} |->
        IF k = key THEN [value |-> value, timestamp |-> now] ELSE rc[k]]

\* A service with an empty cache; last is the last call of GenerateGMResponse:
\* its prompt, what it returned and whether that came from the cache.
InitCache ==
    /\ EngineIdle
    /\ faults = 0
    /\ aiService = [rateLimiter |-> "nil", cache |-> EmptyMap, now |-> 0, n |-> 0,
                    last |-> [prompt |-> <<>>, response |-> "", err |-> FALSE,
                              cached |-> FALSE]]

GenerateGMResponse(prompt) ==
    /\ aiService.n < MaxCalls
    /\ LET key == cacheKey(prompt)
           hit == ResponseCacheGet(aiService.cache, key, aiService.now)
       IN IF hit # ""
          THEN aiService' = [aiService EXCEPT
                               !.n = @ + 1,
                               !.last = [prompt |-> prompt, response |-> hit,
                                         err |-> FALSE, cached |-> TRUE]]
          ELSE \/ aiService' = [aiService EXCEPT
                                  !.n = @ + 1,
                                  !.cache = ResponseCacheSet(@, key,
                                                providerResponse(prompt), aiService.now),
                                  !.last = [prompt |-> prompt,
                                            response |-> providerResponse(prompt),
                                            err |-> FALSE, cached |-> FALSE]]
               \/ aiService' = [aiService EXCEPT
                                  !.n = @ + 1,
                                  !.last = [prompt |-> prompt, response |-> "",
                                            err |-> TRUE, cached |-> FALSE]]
    /\ UNCHANGED engineVars

NextCache ==
    \/ \E prompt \in Prompts : GenerateGMResponse(prompt)
    \/ ClockTick

SpecCache == InitCache /\ [][NextCache]_vars

\* C34: different prompts having different hashes, a response that
\* GenerateGMResponse returns from the cache is the response to the very
\* prompt it was called with.
C34_CachedForSamePromptOnly ==
    aiService.last.cached =>
        aiService.last.response = providerResponse(aiService.last.prompt)

----------------------------------------------------------------------------
\* C35: a GetContext that builds a fresh skeleton was told by the store that
\* the id is not there, and the session the store held at the start is never
\* replaced by a blank one.
C35_NoSkeletonOverStoredSession ==
    /\ \A t \in Handlers :
         (th[t].pc = "gc_store" /\ th[t].how = "created") => th[t].op.sid \notin DOMAIN store
    /\ "s1" \in DOMAIN store
    /\ store["s1"].PlayerID = StoredContext.PlayerID
    /\ store["s1"].Character = StoredContext.Character

----------------------------------------------------------------------------
(* Concurrent first use of a session: handler 1 calls UpdateReputation("s1", 1)
   once, the other handlers call GetContext("s1"); "s1" is in neither the
   cache nor the store at the start. *)

InitFirstUse == InitEngine /\ faults = 0

NextFirstUse ==
    \/ th[1].n = 0 /\ Call(1, OpUpdateReputation("s1", 1))
    \/ /\ calls < MaxCalls
       /\ \E t \in Handlers \ {1} : Call(t, OpGetContext("s1"))
    \/ \E t \in Handlers : GetContextLoad(t)
    \/ \E t \in Handlers : GetContextStore(t)
    \/ \E t \in Handlers \ {1} : GetContextReturn(t)
    \/ UpdateReputationRead(1)
    \/ UpdateReputationWrite(1)
    \/ UpdateReputationClamp(1)
    \/ CacheStore(1)

SpecFirstUse == InitFirstUse /\ [][NextFirstUse]_vars

\* The handlers that hold a session instance: GetContext has given them one
\* and their call has not ended.
C36_Holding == {t \in Handlers : th[t].pc \notin {"idle", "gc_load"}}

\* C36: the callers that use "s1" at the same time all hold one and the same
\* instance, and the reputation handler 1 has set is what the live session
\* has once its call has ended.
C36_OneLiveInstance ==
    /\ \A t \in C36_Holding : \A u \in C36_Holding : th[t].ctx = th[u].ctx
    /\ (th[1].pc = "idle" /\ th[1].n = 1) =>
           heap[cache["s1"]].Character.Reputation = 1

----------------------------------------------------------------------------
(* The periodic flush beside the mutators: handler 1 calls UpdateReputation
   and UpdateCharacterHealth on "s1", the worker processes reputation
   events, and the saver saves the cached sessions. *)

InitVisible == InitEngine /\ faults = 0

NextVisible ==
    \/ /\ calls < MaxOps
       /\ \E d \in RepDeltas : Call(1, OpUpdateReputation("s1", d))
    \/ /\ calls < MaxOps
       /\ \E d \in HealthDeltas : Call(1, OpUpdateCharacterHealth("s1", d))
    \/ /\ calls < MaxOps
       /\ \E k \in RepEvents : processContextEvent("s1", k)
    \/ \E t \in {1, Worker} : GetContextLoad(t)
    \/ \E t \in {1, Worker} : GetContextStore(t)
    \/ UpdateReputationRead(1)
    \/ UpdateReputationWrite(1)
    \/ UpdateReputationClamp(1)
    \/ UpdateCharacterHealthRead(1)
    \/ UpdateCharacterHealthWrite(1)
    \/ UpdateCharacterHealthClamp(1)
    \/ \E t \in {1, Worker} : CacheStore(t)
    \/ ProcessAppend
    \/ ConsequenceRead
    \/ ConsequenceWrite
    \/ ConsequenceClamp
    \/ ProcessStats
    \/ SaverTick
    \/ SaverSave
    \/ SaverEnd

SpecVisible == InitVisible /\ [][NextVisible]_vars

C37_InRange(c) ==
    /\ InRepRange(c.Character.Reputation)
    /\ 0 <= c.Character.Health.Current
    /\ c.Character.Health.Current <= c.Character.Health.Max

\* C37: the live session a reader is handed and the session the flush has
\* written have, at every moment, a reputation within [-100, 100] and a
\* health within [0, max].
C37_NoIntermediateValueVisible ==
    /\ \A s \in cached : C37_InRange(heap[cache[s]])
    /\ \A s \in DOMAIN store : C37_InRange(store[s])

----------------------------------------------------------------------------
(* The in-memory store beside the live session: CreateSession saves the new
   session (the only SaveContext of this specification); once it is saved,
   handler 1 changes the cached session and the worker appends to its log. *)

InitSnapshot == InitEngine /\ faults = 0

NextSnapshot ==
    \/ th[Main].n = 0 /\ CreateSession(Main, "player123", "TestPlayer")
    \/ CreateSessionSave(Main)
    \/ /\ calls < MaxCalls
       /\ \E s \in DOMAIN store, n \in NPCs, u \in NPCUpdates :
            Call(1, OpUpdateNPCRelationship(s, n, u[1], u[2]))
    \/ /\ calls < MaxCalls
       /\ \E s \in DOMAIN store, d \in HealthDeltas : Call(1, OpUpdateCharacterHealth(s, d))
    \/ /\ calls < MaxCalls
       /\ \E s \in DOMAIN store : RecordAction(1, s, CombatAction)
    \/ UpdateNPCRelationshipRead(1)
    \/ UpdateNPCRelationshipFactCheck(1)
    \/ UpdateNPCRelationshipFactAppend(1)
    \/ UpdateNPCRelationshipWrite(1)
    \/ UpdateCharacterHealthRead(1)
    \/ UpdateCharacterHealthWrite(1)
    \/ UpdateCharacterHealthClamp(1)
    \/ \E t \in {1, Worker} : CacheStore(t)
    \/ WorkerReceive
    \/ ProcessAppend
    \/ ConsequenceRead
    \/ ConsequenceWrite
    \/ ConsequenceClamp
    \/ ProcessStats

SpecSnapshot == InitSnapshot /\ [][NextSnapshot]_vars

\* C38: what LoadContext returns for a saved session is the session as
\* CreateSession saved it (full health, no action, no NPC relationship),
\* whatever has been done to the cached session since.
C38_StoredSnapshotIndependent ==
    \A s \in DOMAIN store :
        LET loaded == LoadContext(s).ctx
        IN /\ loaded.Character.Health.Current = NewHealth
           /\ loaded.Actions = <<>>
           /\ npcMaps[loaded.NPCStates] = EmptyMap

----------------------------------------------------------------------------
(* cleanupOldContexts, run once by a caller of its own (the engine has
   none); its position is kept in saver.  Time is not modelled: every cached
   session may be older than the cutoff.  CreateSession saves the new
   session, handler 1 calls UpdateReputation(sid, 1) once, and the storage
   can fail MaxFaults times. *)

\* cleanupOldContexts line 203: the Range starts.
cleanupStart ==
    /\ saver.pc = "wait"
    /\ saver.ticks < MaxTicks
    /\ saver' = [RangeStart(saver, "cleanup") EXCEPT !.ticks = @ + 1]
    /\ UNCHANGED <<aiService, heap, npcMaps, cache, store, eventQueue, shutdownCh, th,
                   workerMode, sd, calls, faults, accepted, rejected, applied, lastGet, arrays>>

\* Lines 204-209 for one key: SaveContext of the value the Range hands over;
\* an error is logged.
cleanupSave ==
    /\ saver.pc = "cleanup"
    /\ \E s \in (saver.todo \ saver.seen) \cap cached, ok \in BOOLEAN :
         /\ (~ok) => faults > 0
         /\ faults' = IF ok THEN faults ELSE faults - 1
         /\ store' = SaveContext(cache[s], ok)
         /\ saver' = [saver EXCEPT !.pc = "cleanup_delete", !.todo = {s}]
    /\ UNCHANGED <<aiService, heap, npcMaps, cache, eventQueue, shutdownCh, th, workerMode,
                   sd, calls, accepted, rejected, applied, lastGet, arrays>>

\* Line 210: cm.cache.Delete(key), whatever the save returned; the Range of
\* this specification has one key, and ends.
cleanupDelete ==
    /\ saver.pc = "cleanup_delete"
    /\ cache' = [s \in Keys |-> IF s \in saver.todo THEN NoCtx ELSE cache[s]]
    /\ saver' = [saver EXCEPT !.pc = "wait", !.todo = {}, !.seen = {}]
    /\ UNCHANGED <<aiService, heap, npcMaps, store, eventQueue, shutdownCh, th, workerMode,
                   sd, calls, faults, accepted, rejected, applied, lastGet, arrays>>

InitCleanup == InitEngine /\ faults = MaxFaults

NextCleanup ==
    \/ th[Main].n = 0 /\ CreateSession(Main, "player123", "TestPlayer")
    \/ CreateSessionSave(Main)
    \/ /\ th[1].n = 0
       /\ \E s \in DOMAIN store : Call(1, OpUpdateReputation(s, 1))
    \/ GetContextLoad(1)
    \/ GetContextStore(1)
    \/ UpdateReputationRead(1)
    \/ UpdateReputationWrite(1)
    \/ UpdateReputationClamp(1)
    \/ CacheStore(1)
    \/ th[Main].n = 1 /\ cleanupStart
    \/ cleanupSave
    \/ cleanupDelete

SpecCleanup == InitCleanup /\ [][NextCleanup]_vars

\* The session as a GetContext would return it: the cached one, or else the
\* stored one.
C39_Current(s) == IF cache[s] # NoCtx THEN heap[cache[s]] ELSE LoadContext(s).ctx

----------------------------------------------------------------------------
(* UpdateLocation, called by one caller at a time: the main goroutine
   creates a session and then moves it MaxMoves times, each call returning
   before the next begins. *)

MaxMoves == 4
MoveTargets == Locations \cup {"dark_cave"}

InitMove == InitEngine /\ faults = 0

NextMove ==
    \/ th[Main].n = 0 /\ CreateSession(Main, "player123", "TestPlayer")
    \/ CreateSessionSave(Main)
    \/ /\ th[Main].n \in 1..MaxMoves
       /\ \E s \in cached, l \in MoveTargets : Call(Main, OpUpdateLocation(s, l))
    \/ UpdateLocationRead(Main)
    \/ UpdateLocationMove(Main)
    \/ UpdateLocationAppend(Main)
    \/ CacheStore(Main)

SpecMove == InitMove /\ [][NextMove]_vars

\* C40: between two calls, the history of a session has one visit for every
\* move to a different location and none for a call that names the current
\* one; the last visit is open and is the current location, every earlier
\* one is closed; previous is the location before the last move; and
\* locations-visited has grown by one for every move.
C40_UpdateLocationMoves ==
    th[Main].pc = "idle" =>
        \A s \in cached :
            LET loc == heap[cache[s]].Location
                hist == loc.LocationHistory
                new == newSessionContext(s, "", "", 0)
                start == new.Location
                at(k) == IF k = 0 THEN start.Current ELSE hist[k].Location
            IN /\ OpenVisits(hist) = IF hist = <<>> THEN {} ELSE {Len(hist)}
               /\ loc.Current = at(Len(hist))
               /\ loc.Previous = IF hist = <<>> THEN start.Previous ELSE at(Len(hist) - 1)
               /\ \A k \in 1..Len(hist) : at(k) # at(k - 1)
               /\ heap[cache[s]].SessionStats.LocationsVisited
                     = new.SessionStats.LocationsVisited + Len(hist)
               /\ Len(hist) <= th[Main].n - 1

\* A session moved to the forest, told again that it is in the forest, and
\* moved back to the village.
C40_Witness ==
    /\ th[Main].pc = "idle"
    /\ th[Main].n = 4
    /\ \E s \in cached :
         LET loc == heap[cache[s]].Location
         IN /\ Len(loc.LocationHistory) = 2
            /\ loc.LocationHistory[1] = [Location |-> "new_forest", Open |-> FALSE]
            /\ loc.Current = "starting_village"
            /\ loc.Previous = "new_forest"

============================================================================
